---- MODULE Spec2Model ----
(***************************************************************************)
(* Node-network background animation of the Psychopism website.           *)
(*                                                                         *)
(* Two implementations exist in the repository:                            *)
(*   - the lifecycle-managed class (NodeNetworkAnimation extends           *)
(*     Component), with AnimationFrameManager and throttle();             *)
(*   - the standalone class (src/animations/NodeNetworkAnimation.ts).     *)
(* The variables are the fields of one animation object plus the browser   *)
(* state it talks to (frame-request queue, timers, listeners, layout).     *)
(*                                                                         *)
(* Units: positions are in 1/100 px, velocities in 1/100 (px per 20 ms),   *)
(* times in ms.  With times that are multiples of 50 ms the integration    *)
(*   x += vx * deltaTime * MOVEMENT_SPEED                                  *)
(* is exact in integers: (vx/100) * dt * 0.02 px = vx * dt / 50 units.     *)
(***************************************************************************)
EXTENDS Integers, Sequences, FiniteSets, TLC

VARIABLES
  \* ---- Component (core/lifecycle/Component) ----
  state,              \* ComponentState
  initPending,        \* performInitialization awaiting onInit: "none" | "ok" | "fail"
  mountPending,       \* mount() awaiting: "none" | "awaitInit" | "awaitMount"
  cleanupFunctions,   \* names of the cleanup closures registered with addCleanup
  \* ---- AnimationFrameManager ----
  amDestroyed,        \* AnimationFrameManager.isDestroyed
  activeAnimations,   \* AnimationFrameManager.activeAnimations
  \* ---- browser ----
  rafQueue,           \* pending requestAnimationFrame callbacks: [id, kind]
  listeners,          \* DOM listeners currently attached
  observing,          \* the ResizeObserver is connected to the canvas
  docHidden,          \* document.hidden
  rectW, rectH,       \* layout box of the canvas while it is in the document
  dpr,                \* window.devicePixelRatio
  scrollY,            \* window.scrollY
  now,                \* ms since page load (performance.now(); Date.now() = Epoch + now)
  resizeThrottle,     \* closure state of throttle(handleResize, 100): [last, timer]
  scrollThrottle,     \* closure state of throttle(handleScroll, 50):  [last, timer]
  canvasInDom,        \* the canvas element is attached to the document
  \* ---- animation object ----
  nodeCount,          \* config: number of nodes
  nodes,              \* sequence of Node records
  connections,        \* sequence of Connection records, nodes by index
  canvasW, canvasH,   \* canvas.width / canvas.height (backing store)
  ctxScale,           \* x/y scale of the 2D context's transform
  isVisible,
  lastUpdateTime,
  frameSkip, frameSkipMax,
  lastScrollY,
  isDragging, draggedNode, mouseOffset,
  \* ---- standalone class only ----
  animationId,        \* 0 stands for null
  ticking,            \* closure variable of setupScrollOptimization
  \* ---- observation ----
  inputs,             \* pointer and touch events delivered so far
  touches,            \* touch points on the canvas (event.touches.length)
  drawn,              \* the draw calls of the last render, in order
  enableAnimations,   \* the settings store's enableAnimations
  \* ---- application (App) ----
  appState,           \* lifecycle state of the App component, "none" without App
  animationsEnabled,  \* appState.animationsEnabled
  explicitPause,      \* standalone class: pause() was called and resume() not since
  \* ---- event bus ----
  bus,                \* an EventBus: listener sets of one event, and what was called
  \* ---- settings manager ----
  sm,                 \* SettingsManager: settings, stored copy, UI, the last setSetting call
  lastEvent           \* what the last step did

compVars   == <<state, initPending, mountPending, cleanupFunctions>>
frameVars  == <<amDestroyed, activeAnimations, rafQueue>>
domVars    == <<listeners, observing, canvasInDom>>
envVars    == <<docHidden, rectW, rectH, dpr, scrollY, now>>
timerVars  == <<resizeThrottle, scrollThrottle>>
canvasVars == <<canvasW, canvasH, ctxScale>>
loopVars   == <<isVisible, lastUpdateTime, frameSkip, frameSkipMax, lastScrollY>>
dragVars   == <<isDragging, draggedNode, mouseOffset>>
saVars     == <<animationId, ticking>>
appVars    == <<appState, animationsEnabled>>

vars == <<compVars, frameVars, domVars, envVars, timerVars, canvasVars,
          loopVars, dragVars, saVars, nodeCount, nodes, connections, inputs, touches, enableAnimations, appVars, explicitPause, bus, sm, drawn, lastEvent>>

----------------------------------------------------------------------------
(* Bounds of the model *)

MaxTime == 100            \* the clock stops here
MaxInputs == 3             \* pointer and touch events per run of the simulation specification
MaxTouches == 2            \* touch points on the canvas at a time
MaxRaf  == 2              \* at most this many frame requests are pending at once

(* Scales *)
PX == 10 * 10             \* position units per pixel
Epoch == 50 * 20          \* Date.now() at page load; any value above the throttle delays

(* Program constants *)
MOVEMENT_SPEED_DIV == 50          \* dt * MOVEMENT_SPEED (0.02) in the model's units: dt / 50
MAX_VELOCITY == 80                \* 0.8
FRAME_SKIP_THRESHOLD == 20
TOLERANCE == 25                   \* findNodeAtPosition
MARGIN == 50                      \* repositionNodes
MAX_CONNECTION_DISTANCE == 150    \* px
CHARACTER_UPDATE_MIN == 2000    \* ms
CHARACTER_UPDATE_MAX == 5000    \* ms
RESIZE_DELAY == 100
SCROLL_DELAY == 50

(* Clock step: the finest throttle delay *)
TickMs == SCROLL_DELAY
LoadTime == 40 * TickMs

Min(a, b) == IF a < b THEN a ELSE b
Max(a, b) == IF a > b THEN a ELSE b
Abs(a) == IF a < 0 THEN -a ELSE a

(* shared/utils/animation.ts: clamp *)
clamp(value, lo, hi) == Min(Max(value, lo), hi)

----------------------------------------------------------------------------
(* Input sets of the model (all in the units above) *)

Layouts == { <<100, 100, 1>>, <<40, 40, 2>> }
DragLayouts == { <<100, 100, 1>>, <<40, 100, 1>> }   \* CSS width, height, DPR
InitialLayout == <<100, 100, 1>>
\* what initializeNodes draws for one node: Math.random() for x and y (in tenths)
\* for randomPosition, and the velocity of randomVelocity(0.5)
InitDraws == { <<0, 5, -25, 0>>, <<9, 5, -25, -25>> }
ReleaseRandoms == { -25, 20 }                                    \* (Math.random() - 0.5) * 0.5
Perturbations == { <<-4, -4>> }                                  \* (Math.random() - 0.5) * 0.1, twice
Pointers == { <<10 * PX, 50 * PX>>, <<80 * PX, 50 * PX>> }
\* where a move event can take the pointer: the press points and the left edge
MoveTargets == Pointers \cup { <<0, 50 * PX>> }
ScrollYs == { 0, 5, 25 }
Glyphs == { "x", "#" }                                           \* randomNoiseChar()
Colors == { "rgb(1,2,3)", "rgb(4,5,6)" }                         \* rgbToString(randomRGB())
\* Math.random() * (MAX - MIN), in ms: the least, a middle and the greatest value
GlyphDelays == { 0, (CHARACTER_UPDATE_MAX - CHARACTER_UPDATE_MIN) \div 2,
                 CHARACTER_UPDATE_MAX - CHARACTER_UPDATE_MIN - 1 }
GlyphRolls == [ delay : GlyphDelays, char : Glyphs, color : Colors ]
ListenerNames == { "resize", "scroll", "visibilitychange", "mousedown", "mousemove",
                   "mouseup", "mouseleave", "touchstart", "touchmove", "touchend" }
CanvasListeners == ListenerNames \ { "resize", "scroll", "visibilitychange" }

NewNode(pos, vel) ==
  [ x |-> pos[1], y |-> pos[2], vx |-> vel[1], vy |-> vel[2],
    isDragging |-> FALSE,
    hasOriginal |-> FALSE, originalVx |-> 0, originalVy |-> 0,
    char |-> "x", color |-> "rgb(1,2,3)", lastCharUpdate |-> 0 ]

\* the nodes initializeNodes can push on a canvas of w x h units
InitNodeSet(w, h) ==
  { NewNode(<<(r[1] * w) \div 10, (r[2] * h) \div 10>>, <<r[3], r[4]>>) : r \in InitDraws }

----------------------------------------------------------------------------
(* Canvas geometry *)

\* getBoundingClientRect(): the layout box, empty once the canvas left the document
RectW == IF canvasInDom THEN rectW ELSE 0
RectH == IF canvasInDom THEN rectH ELSE 0

\* canvas.width / (window.devicePixelRatio || 1), in position units
canvasWidthOf(w)  == (w * PX) \div dpr
canvasHeightOf(h) == (h * PX) \div dpr
canvasWidth  == canvasWidthOf(canvasW)
canvasHeight == canvasHeightOf(canvasH)

\* repositionNodes: clamp every node into [0, width - 50] x [0, height - 50]
repositionNodes(ns, w, h) ==
  [ i \in DOMAIN ns |->
      [ ns[i] EXCEPT !.x = clamp(@, 0, canvasWidthOf(w) - MARGIN * PX),
                     !.y = clamp(@, 0, canvasHeightOf(h) - MARGIN * PX) ] ]

\* variant: the scale applied on top of the transform of the resize before
UpdateCanvasSizeCompounding ==
  /\ canvasW' = RectW * dpr
  /\ canvasH' = RectH * dpr
  /\ ctxScale' = ctxScale * dpr

\* updateCanvasSize: setting canvas.width resets the context's transform, then
\* context.scale(dpr, dpr) is applied once
UpdateCanvasSize ==
  /\ canvasW' = RectW * dpr
  /\ canvasH' = RectH * dpr
  /\ ctxScale' = 1 * dpr

----------------------------------------------------------------------------
(* AnimationFrameManager over the browser's frame-request queue *)

AFM == [ destroyed |-> amDestroyed, active |-> activeAnimations, queue |-> rafQueue ]

UsedIds(m) == { e.id : e \in m.queue } \cup m.active \cup { animationId }

\* requestAnimationFrame returns a handle that no pending request carries
FreshId(m) == CHOOSE i \in 1..(Cardinality(UsedIds(m)) + 1) : i \notin UsedIds(m)

requestFrame(m) ==
  IF m.destroyed THEN m
  ELSE LET id == FreshId(m) IN
       [ m EXCEPT !.active = @ \cup { id },
                  !.queue  = @ \cup { [ id |-> id, kind |-> "animate" ] } ]

cancelAllFrames(m) ==
  [ m EXCEPT !.queue = { e \in @ : e.id \notin m.active }, !.active = {} ]

\* variant: destroy() that forgets cancelAllFrames()
destroyManagerNoCancel(m) == [ m EXCEPT !.destroyed = TRUE ]

destroyManager(m) == cancelAllFrames([ m EXCEPT !.destroyed = TRUE ])

SetAFM(m) ==
  /\ amDestroyed' = m.destroyed
  /\ activeAnimations' = m.active
  /\ rafQueue' = m.queue
  /\ Cardinality(m.queue) <= MaxRaf

\* startAnimation, called with the component state `st` and flag `vis` of the moment
startAnimation(m, vis, st) ==
  IF ~vis \/ st # "active" THEN m ELSE requestFrame(m)

----------------------------------------------------------------------------
(* Simulation *)

\* variant: no velocity limit
limitVelocityNot(v) == v

\* updateNodes: clamp(node.vx, -maxVel, maxVel)
limitVelocity(v) == clamp(v, -MAX_VELOCITY, MAX_VELOCITY)

\* variant: updateNodes without the `!node.isDragging` guard
updateNodeDragged(n, dt, pert) ==
  LET x1  == n.x + (n.vx * dt) \div MOVEMENT_SPEED_DIV
      y1  == n.y + (n.vy * dt) \div MOVEMENT_SPEED_DIV
      bx  == x1 <= 0 \/ x1 >= canvasWidth
      by  == y1 <= 0 \/ y1 >= canvasHeight
      vx1 == IF bx THEN -n.vx ELSE n.vx
      vy1 == IF by THEN -n.vy ELSE n.vy
      vx2 == IF pert = <<>> THEN vx1 ELSE limitVelocity(vx1 + pert[1])
      vy2 == IF pert = <<>> THEN vy1 ELSE limitVelocity(vy1 + pert[2])
  IN [ n EXCEPT !.x = IF bx THEN clamp(x1, 0, canvasWidth) ELSE x1,
                !.y = IF by THEN clamp(y1, 0, canvasHeight) ELSE y1,
                !.vx = vx2, !.vy = vy2 ]

\* updateNodes for one node; pert = <<dvx, dvy>> when Math.random() fell below
\* DIRECTION_CHANGE_PROBABILITY for this node, <<>> otherwise
updateNode(n, dt, pert) ==
  IF n.isDragging THEN n
  ELSE
    LET x1  == n.x + (n.vx * dt) \div MOVEMENT_SPEED_DIV
        y1  == n.y + (n.vy * dt) \div MOVEMENT_SPEED_DIV
        bx  == x1 <= 0 \/ x1 >= canvasWidth
        by  == y1 <= 0 \/ y1 >= canvasHeight
        vx1 == IF bx THEN -n.vx ELSE n.vx
        vy1 == IF by THEN -n.vy ELSE n.vy
        x2  == IF bx THEN clamp(x1, 0, canvasWidth) ELSE x1
        y2  == IF by THEN clamp(y1, 0, canvasHeight) ELSE y1
        vx2 == IF pert = <<>> THEN vx1 ELSE limitVelocity(vx1 + pert[1])
        vy2 == IF pert = <<>> THEN vy1 ELSE limitVelocity(vy1 + pert[2])
    IN [ n EXCEPT !.x = x2, !.y = y2, !.vx = vx2, !.vy = vy2 ]

\* updateNodes: `who` is the node whose direction is perturbed in this update (0: none)
updateNodes(ns, dt, who, pert) ==
  [ i \in DOMAIN ns |-> updateNode(ns[i], dt, IF i = who THEN pert ELSE <<>>) ]

\* variant: the character interval without its lower bound MIN
updateCharEarly(n, t, roll) ==
  IF t - n.lastCharUpdate > roll.delay
  THEN [ n EXCEPT !.char = roll.char, !.color = roll.color, !.lastCharUpdate = t ]
  ELSE n

\* updateNodes, the character part, for one node: t = performance.now(), roll = the
\* random numbers this node draws
updateChar(n, t, roll) ==
  IF t - n.lastCharUpdate > CHARACTER_UPDATE_MIN + roll.delay
  THEN [ n EXCEPT !.char = roll.char, !.color = roll.color, !.lastCharUpdate = t ]
  ELSE n

updateChars(ns, t, rolls) == [ i \in DOMAIN ns |-> updateChar(ns[i], t, rolls[i]) ]

\* the draws of one update, one per node; while no node has passed MIN the draws
\* do not matter and the least one stands for all
RollsFor(ns, t) ==
  IF \E i \in DOMAIN ns : t - ns[i].lastCharUpdate > CHARACTER_UPDATE_MIN
  THEN [ DOMAIN ns -> GlyphRolls ]
  ELSE { [ i \in DOMAIN ns |-> [ delay |-> 0, char |-> "#", color |-> "rgb(4,5,6)" ] ] }

\* animate: `this.frameSkip < this.frameSkipMax` after the increment
skipsFrame(count, max) == count < max

\* Math.sqrt, to the position unit below: the largest r in lo..hi with r * r <= n
RECURSIVE sqrtIn(_, _, _)
sqrtIn(n, lo, hi) ==
  IF lo >= hi THEN lo
  ELSE LET mid == (lo + hi + 1) \div 2
       IN IF mid <= n \div mid THEN sqrtIn(n, mid, hi) ELSE sqrtIn(n, lo, mid - 1)

\* shared/utils/animation.ts: distance
distance(point1, point2) ==
  LET dx == point2.x - point1.x
      dy == point2.y - point1.y
  IN sqrtIn(dx * dx + dy * dy, 0, Abs(dx) + Abs(dy))

maxConnectionDistance == MAX_CONNECTION_DISTANCE * PX

\* variant: a connection also at exactly the maximum distance
connectsInclusive(dist) == dist <= maxConnectionDistance

\* updateConnections: `dist < this.maxConnectionDistance`
connects(dist) == dist < maxConnectionDistance

\* the Connection pushed for nodes i < j; strength = 1 - dist / maxConnectionDistance
\* is kept as its numerator over maxConnectionDistance
Connection(ns, i, j) ==
  [ nodeA |-> i, nodeB |-> j, strength |-> maxConnectionDistance - distance(ns[i], ns[j]) ]

\* the two nested loops of updateConnections, from the pair (i, j) on
RECURSIVE connectionLoop(_, _, _)
connectionLoop(ns, i, j) ==
  IF i > Len(ns) THEN <<>>
  ELSE IF j > Len(ns) THEN connectionLoop(ns, i + 1, i + 2)
  ELSE (IF connects(distance(ns[i], ns[j])) THEN << Connection(ns, i, j) >> ELSE <<>>)
         \o connectionLoop(ns, i, j + 1)

\* variant: updateConnections that does not start from an empty list
updateConnectionsAppending(ns) == connections \o connectionLoop(ns, 1, 2)

\* updateConnections: this.connections = [] and the loops
updateConnections(ns) == connectionLoop(ns, 1, 2)

\* variant: the connections computed before the update of the frame
connectionsOfFrameStale(before, after) == updateConnections(before)

\* animate: updateNodes(deltaTime), then updateConnections() on the updated nodes
connectionsOfFrame(before, after) == updateConnections(after)

\* variant: render that draws the nodes before the connections
renderNodesFirst(ns, cs) ==
  << [ op |-> "clearRect", a |-> 0, b |-> 0 ] >>
  \o [ i \in 1 .. Len(ns) |-> [ op |-> "node", a |-> i, b |-> i ] ]
  \o [ k \in 1 .. Len(cs) |-> [ op |-> "connection", a |-> cs[k].nodeA, b |-> cs[k].nodeB ] ]

\* render: clearRect, renderConnections, renderNodes; the draw calls in order, a
\* connection by its two nodes, a node by its place in the list
render(ns, cs) ==
  << [ op |-> "clearRect", a |-> 0, b |-> 0 ] >>
  \o [ k \in 1 .. Len(cs) |-> [ op |-> "connection", a |-> cs[k].nodeA, b |-> cs[k].nodeB ] ]
  \o [ i \in 1 .. Len(ns) |-> [ op |-> "node", a |-> i, b |-> i ] ]

\* findNodeAtPosition: the first node in list order within the tolerance, 0 for null.
\* sqrt(d2) <= tolerance is decided on the squares.
\* variant: no tolerance test, every node matches
InToleranceAny(n, p) == TRUE

InTolerance(n, p) ==
  (p[1] - n.x) * (p[1] - n.x) + (p[2] - n.y) * (p[2] - n.y)
     <= (TOLERANCE * PX) * (TOLERANCE * PX)

PointerD2(n, p) == (p[1] - n.x) * (p[1] - n.x) + (p[2] - n.y) * (p[2] - n.y)

\* variant: the nearest node within the tolerance instead of the first one
findNearestNodeAtPosition(ns, p) ==
  IF \E i \in DOMAIN ns : InTolerance(ns[i], p)
  THEN CHOOSE i \in DOMAIN ns :
         /\ InTolerance(ns[i], p)
         /\ \A j \in DOMAIN ns :
              InTolerance(ns[j], p) =>
                \/ PointerD2(ns[i], p) < PointerD2(ns[j], p)
                \/ PointerD2(ns[i], p) = PointerD2(ns[j], p) /\ i <= j
  ELSE 0

findNodeAtPosition(ns, p) ==
  IF \E i \in DOMAIN ns : InTolerance(ns[i], p)
  THEN CHOOSE i \in DOMAIN ns :
         /\ InTolerance(ns[i], p)
         /\ \A j \in DOMAIN ns : InTolerance(ns[j], p) => i <= j
  ELSE 0

----------------------------------------------------------------------------
(* Construction *)

----------------------------------------------------------------------------
(* EventBus (core/events/EventBus), the listeners of one event.  A Set is kept as
   its list of entries in insertion order; a deleted entry becomes 0 and stays in
   place, a new entry is appended, and forEach walks the list by position, so it
   visits entries added during the walk and none that were deleted before their
   turn. *)

MaxBusOps == 3

ListenerIds == 1 .. 3

\* what a callback does the first time it is called
Behaviour(l) ==
  CASE l = 1 -> "plain"       \* returns
    [] l = 2 -> "reemit"      \* emits the same event again
    [] l = 3 -> "register"    \* registers callback 1 with once()

EmptyBus ==
  [ listeners |-> <<>>, onceListeners |-> <<>>, fired |-> {},
    onceAdded |-> [ l \in ListenerIds |-> 0 ],
    onceCalls |-> [ l \in ListenerIds |-> 0 ],
    ops |-> 0 ]

setHas(list, l) == \E i \in 1 .. Len(list) : list[i] = l
setAdd(list, l) == IF setHas(list, l) THEN list ELSE Append(list, l)
setDelete(list, l) == [ i \in 1 .. Len(list) |-> IF list[i] = l THEN 0 ELSE list[i] ]
setClear(list) == [ i \in 1 .. Len(list) |-> 0 ]
setEntries(list) == SelectSeq(list, LAMBDA l : l # 0)

\* on(event, callback)
busOn(b, l) == [ b EXCEPT !.listeners = setAdd(@, l) ]

\* once(event, callback)
busOnce(b, l) ==
  [ b EXCEPT !.onceListeners = setAdd(@, l),
             !.onceAdded[l] = IF setHas(b.onceListeners, l) THEN @ ELSE @ + 1 ]

\* off(event, callback)
busOff(b, l) ==
  [ b EXCEPT !.listeners = setDelete(@, l), !.onceListeners = setDelete(@, l) ]

RECURSIVE busEmit(_), busEachListener(_, _), busEachOnce(_, _), busCall(_, _)

\* callback l runs
busCall(b, l) ==
  IF l \in b.fired THEN b
  ELSE LET b1 == [ b EXCEPT !.fired = @ \cup { l } ]
       IN CASE Behaviour(l) = "plain" -> b
            [] Behaviour(l) = "reemit" -> busEmit(b1)
            [] Behaviour(l) = "register" -> busOnce(b1, 1)

\* listeners.forEach(callback => callback(data)) from position i
busEachListener(b, i) ==
  IF i > Len(b.listeners) THEN b
  ELSE IF b.listeners[i] = 0 THEN busEachListener(b, i + 1)
  ELSE busEachListener(busCall(b, b.listeners[i]), i + 1)

\* onceListeners.forEach(callback => callback(data)) from position i
busEachOnce(b, i) ==
  IF i > Len(b.onceListeners) THEN b
  ELSE IF b.onceListeners[i] = 0 THEN busEachOnce(b, i + 1)
  ELSE LET l == b.onceListeners[i]
       IN busEachOnce(busCall([ b EXCEPT !.onceCalls[l] = @ + 1 ], l), i + 1)

\* emit(event, data): the regular listeners, then the once-listeners, then clear()
busEmit(b) ==
  LET b1 == busEachListener(b, 1)
      b2 == busEachOnce(b1, 1)
  IN [ b2 EXCEPT !.onceListeners = setClear(@) ]

\* between two calls no forEach is under way: only the entries of a Set matter
busSettled(b) ==
  [ b EXCEPT !.listeners = setEntries(@), !.onceListeners = setEntries(@), !.ops = @ + 1 ]

----------------------------------------------------------------------------
(* SettingsManager (settings/SettingsManager).  A setting value carries its
   JavaScript type; animationSpeed is kept in tenths. *)

num(n)  == [ t |-> "number",  n |-> n, s |-> "" ]
str(s)  == [ t |-> "string",  n |-> 0, s |-> s ]
bool(b) == [ t |-> "boolean", n |-> IF b THEN 1 ELSE 0, s |-> "" ]

SettingKeys == { "animationSpeed", "masterVolume", "graphicsQuality", "debugMode" }

DEFAULT_SETTINGS ==
  [ animationSpeed |-> num(10), masterVolume |-> num(50),
    graphicsQuality |-> str("medium"), debugMode |-> bool(FALSE) ]

VALIDATION_RULES ==
  { [ key |-> "animationSpeed", type |-> "number", min |-> 5, max |-> 30, allowedValues |-> {} ],
    [ key |-> "masterVolume", type |-> "number", min |-> 0, max |-> 100, allowedValues |-> {} ],
    [ key |-> "graphicsQuality", type |-> "string", min |-> 0, max |-> 0,
      allowedValues |-> { "low", "medium", "high", "ultra" } ] }

\* the values callers hand to setSetting
SettingInputs ==
  { <<"animationSpeed", num(4)>>, <<"animationSpeed", num(5)>>,
    <<"animationSpeed", num(30)>>, <<"animationSpeed", num(31)>>,
    <<"masterVolume", num(-1)>>, <<"masterVolume", num(0)>>,
    <<"masterVolume", num(100)>>, <<"masterVolume", num(101)>>,
    <<"masterVolume", str("high")>>,
    <<"graphicsQuality", str("low")>>, <<"graphicsQuality", str("ultra")>>,
    <<"graphicsQuality", str("extreme")>>,
    <<"debugMode", bool(TRUE)>>, <<"debugMode", bool(FALSE)>> }

NewSettingsManager ==
  [ settings |-> DEFAULT_SETTINGS, stored |-> DEFAULT_SETTINGS, ui |-> DEFAULT_SETTINGS,
    call |-> <<>>, outcome |-> "none", emitted |-> FALSE ]

\* variant: validateSetting that forgets the upper bound
validateSettingNoMax(key, value) ==
  IF ~\E r \in VALIDATION_RULES : r.key = key THEN TRUE
  ELSE LET rule == CHOOSE r \in VALIDATION_RULES : r.key = key
       IN /\ (rule.type = "number" /\ value.t = "number") => ~(value.n < rule.min)
          /\ (rule.type = "string" /\ value.t = "string") => value.s \in rule.allowedValues

validateSetting(key, value) ==
  IF ~\E r \in VALIDATION_RULES : r.key = key THEN TRUE
  ELSE LET rule == CHOOSE r \in VALIDATION_RULES : r.key = key
       IN /\ (rule.type = "number" /\ value.t = "number") =>
               ~(value.n < rule.min) /\ ~(value.n > rule.max)
          /\ (rule.type = "string" /\ value.t = "string") => value.s \in rule.allowedValues

\* setSetting(key, value, skipValidation) on the manager m, autoSave on: the throw,
\* the early return, or the update with emit, applySettings, updateUI and save
setSetting(m, key, value, skipValidation) ==
  LET called == [ m EXCEPT !.call = <<key, value>> ]
  IN IF ~skipValidation /\ ~validateSetting(key, value)
     THEN [ called EXCEPT !.outcome = "rejected", !.emitted = FALSE ]
     ELSE IF m.settings[key] = value
     THEN [ called EXCEPT !.outcome = "unchanged", !.emitted = FALSE ]
     ELSE LET settings == [ m.settings EXCEPT ![key] = value ]
          IN [ called EXCEPT !.settings = settings, !.emitted = TRUE,
                             !.ui = settings, !.stored = settings,
                             !.outcome = "updated" ]

NoThrottle == [ last |-> 0, timer |-> -1 ]
CleanupNames == { "resize", "scroll", "visibilitychange", "canvas" }

\* State after `new NodeNetworkAnimation(config)`.  With autoInit the base-class
\* constructor runs initialize() and so onInit() before the subclass fields and
\* nodeCount are assigned: initializeNodes sees nodeCount undefined and pushes nothing.
InitAnimation(autoInits, counts, times) ==
  /\ nodeCount \in counts
  /\ docHidden = FALSE
  /\ rectW = InitialLayout[1] /\ rectH = InitialLayout[2] /\ dpr = InitialLayout[3]
  /\ scrollY = 0 /\ now \in times
  /\ resizeThrottle = NoThrottle /\ scrollThrottle = NoThrottle
  /\ amDestroyed = FALSE /\ activeAnimations = {} /\ rafQueue = {}
  /\ nodes = <<>> /\ connections = <<>>
  /\ isVisible = TRUE /\ lastUpdateTime = 0
  /\ frameSkip = 0 /\ frameSkipMax = 1 /\ lastScrollY = 0
  /\ isDragging = FALSE /\ draggedNode = 0 /\ mouseOffset = <<0, 0>>
  /\ animationId = 0 /\ ticking = FALSE
  /\ mountPending = "none"
  /\ inputs = 0
  /\ touches = 0
  /\ drawn = <<>>
  /\ enableAnimations = TRUE
  /\ lastEvent = "constructed"
  /\ \E autoInit \in autoInits, ctx \in BOOLEAN :
       IF ~autoInit THEN
         /\ state = "created" /\ initPending = "none"
         /\ cleanupFunctions = {} /\ listeners = {} /\ observing = FALSE
         /\ canvasInDom = FALSE
         /\ canvasW = 0 /\ canvasH = 0 /\ ctxScale = 1
       ELSE
         /\ state = "initializing"
         /\ canvasInDom = TRUE
         /\ IF ctx THEN
              /\ initPending = "ok"
              /\ canvasW = rectW * dpr /\ canvasH = rectH * dpr /\ ctxScale = dpr
              /\ listeners = ListenerNames /\ cleanupFunctions = CleanupNames
              /\ observing = TRUE
            ELSE
              /\ initPending = "fail"
              /\ canvasW = 0 /\ canvasH = 0 /\ ctxScale = 1
              /\ listeners = {} /\ cleanupFunctions = {} /\ observing = FALSE

\* The animation constructed on its own, without the application around it
InitWith(autoInits, counts, times) ==
  /\ InitAnimation(autoInits, counts, times)
  /\ appState = "none" /\ animationsEnabled = TRUE
  /\ explicitPause = FALSE
  /\ bus = EmptyBus
  /\ sm = NewSettingsManager

----------------------------------------------------------------------------
(* Component lifecycle (core/lifecycle/Component) with the hooks of the animation *)

\* onInit(): setupCanvas, setupEventListeners, initializeNodes; ctx tells whether
\* getContext('2d') returned a context
OnInit(ctx) ==
  /\ canvasInDom' = TRUE
  /\ IF ctx THEN
       /\ canvasW' = rectW * dpr /\ canvasH' = rectH * dpr /\ ctxScale' = 1 * dpr
       /\ listeners' = listeners \cup ListenerNames
       /\ cleanupFunctions' = cleanupFunctions \cup CleanupNames
       /\ observing' = TRUE
       /\ nodes' \in [ 1..nodeCount -> InitNodeSet(rectW * PX, rectH * PX) ]
       /\ initPending' = "ok"
     ELSE
       /\ UNCHANGED <<canvasVars, listeners, cleanupFunctions, observing, nodes>>
       /\ initPending' = "fail"

\* initialize(): only from CREATED; the synchronous part of performInitialization
Initialize ==
  /\ state = "created"
  /\ state' = "initializing"
  /\ \E ctx \in BOOLEAN : OnInit(ctx)
  /\ lastEvent' = "initialize"
  /\ UNCHANGED <<mountPending, frameVars, envVars, timerVars, loopVars, dragVars,
                 saVars, inputs, touches, enableAnimations, appVars, explicitPause, bus, sm, drawn, nodeCount, connections>>

\* activate() entered with this.state = st: onActivate() runs before setState(ACTIVE)
DoActivate(st) ==
  IF st \in { "mounted", "paused" } THEN
    /\ isVisible' = TRUE
    /\ SetAFM(startAnimation(AFM, TRUE, st))
    /\ state' = "active"
  ELSE
    /\ state' = st
    /\ UNCHANGED <<isVisible, frameVars>>

\* variant: performInitialization that swallows the error of onInit()
InitSettleSwallows ==
  /\ initPending # "none"
  /\ state' = "initialized"
  /\ initPending' = "none"
  /\ mountPending' = IF mountPending = "awaitInit" /\ initPending = "ok"
                     THEN "awaitMount"
                     ELSE IF mountPending = "awaitInit" THEN "none" ELSE mountPending
  /\ lastEvent' = "initSettle"
  /\ UNCHANGED <<cleanupFunctions, frameVars, domVars, envVars, timerVars, canvasVars,
                 loopVars, dragVars, saVars, inputs, touches, enableAnimations, appVars, explicitPause, bus, sm, drawn, nodeCount, connections, nodes>>

\* the continuation of performInitialization after `await this.onInit()`, followed
\* by the continuation of a mount() that awaited initialize()
InitSettle ==
  /\ initPending # "none"
  /\ state' = IF initPending = "ok" THEN "initialized" ELSE "error"
  /\ initPending' = "none"
  /\ mountPending' = IF mountPending = "awaitInit" /\ initPending = "ok"
                     THEN "awaitMount"
                     ELSE IF mountPending = "awaitInit" THEN "none" ELSE mountPending
  /\ lastEvent' = "initSettle"
  /\ UNCHANGED <<cleanupFunctions, frameVars, domVars, envVars, timerVars, canvasVars,
                 loopVars, dragVars, saVars, inputs, touches, enableAnimations, appVars, explicitPause, bus, sm, drawn, nodeCount, connections, nodes>>

\* mount(): the synchronous part, up to its first await
Mount ==
  /\ mountPending = "none"
  /\ \/ /\ state = "initialized"
        /\ mountPending' = "awaitMount"
        /\ UNCHANGED <<state, initPending, cleanupFunctions, domVars, canvasVars, nodes>>
     \/ /\ state = "created"
        /\ state' = "initializing"
        /\ \E ctx \in BOOLEAN : OnInit(ctx)
        /\ mountPending' = "awaitInit"
  /\ lastEvent' = "mount"
  /\ UNCHANGED <<frameVars, envVars, timerVars, loopVars, dragVars, saVars, inputs, touches, enableAnimations, appVars, explicitPause, bus, sm, drawn, nodeCount, connections>>

\* mount() after `await this.onMount()`: setState(MOUNTED); this.activate()
MountSettle ==
  /\ mountPending = "awaitMount" /\ initPending = "none"
  /\ mountPending' = "none"
  /\ DoActivate("mounted")
  /\ lastEvent' = "mounted"
  /\ UNCHANGED <<initPending, cleanupFunctions, domVars, envVars, timerVars, canvasVars,
                 lastUpdateTime, frameSkip, frameSkipMax, lastScrollY, dragVars, saVars, inputs, touches, enableAnimations, appVars, explicitPause, bus, sm, drawn,
                 nodeCount, connections, nodes>>

\* activate()
Activate ==
  /\ state \in { "mounted", "paused" }
  /\ DoActivate(state)
  /\ lastEvent' = "activate"
  /\ UNCHANGED <<initPending, mountPending, cleanupFunctions, domVars, envVars, timerVars,
                 canvasVars, lastUpdateTime, frameSkip, frameSkipMax, lastScrollY,
                 dragVars, saVars, inputs, touches, enableAnimations, appVars, explicitPause, bus, sm, drawn, nodeCount, connections, nodes>>

\* pause(): onPause() then setState(PAUSED)
Pause ==
  /\ state = "active"
  /\ isVisible' = FALSE
  /\ SetAFM(cancelAllFrames(AFM))
  /\ state' = "paused"
  /\ lastEvent' = "pause"
  /\ UNCHANGED <<initPending, mountPending, cleanupFunctions, domVars, envVars, timerVars,
                 canvasVars, lastUpdateTime, frameSkip, frameSkipMax, lastScrollY,
                 dragVars, saVars, inputs, touches, enableAnimations, appVars, explicitPause, bus, sm, drawn, nodeCount, connections, nodes>>

\* variant: destroy() that never reaches setState(DESTROYED)
DestroyLeavesState ==
  /\ state # "destroyed"
  /\ state' = state
  /\ SetAFM(destroyManager(AFM))
  /\ observing' = FALSE
  /\ canvasInDom' = FALSE
  /\ listeners' = listeners \ ( (cleanupFunctions \ { "canvas" })
                                \cup (IF "canvas" \in cleanupFunctions
                                      THEN CanvasListeners ELSE {}) )
  /\ cleanupFunctions' = {}
  /\ lastEvent' = IF activeAnimations # {} THEN "destroy:cancelled" ELSE "destroy"
  /\ UNCHANGED <<initPending, mountPending, envVars, timerVars, canvasVars, loopVars,
                 dragVars, saVars, inputs, touches, enableAnimations, appVars, explicitPause, bus, sm, drawn, nodeCount, connections, nodes>>

\* destroy(): onDestroy(), runCleanupFunctions(), setState(DESTROYED)
Destroy ==
  /\ state # "destroyed"
  /\ SetAFM(destroyManager(AFM))
  /\ observing' = FALSE
  /\ canvasInDom' = FALSE
  /\ listeners' = listeners \ ( (cleanupFunctions \ { "canvas" })
                                \cup (IF "canvas" \in cleanupFunctions
                                      THEN CanvasListeners ELSE {}) )
  /\ cleanupFunctions' = {}
  /\ state' = "destroyed"
  /\ lastEvent' = IF activeAnimations # {} THEN "destroy:cancelled" ELSE "destroy"
  /\ UNCHANGED <<initPending, mountPending, envVars, timerVars, canvasVars, loopVars,
                 dragVars, saVars, inputs, touches, enableAnimations, appVars, explicitPause, bus, sm, drawn, nodeCount, connections, nodes>>

----------------------------------------------------------------------------
(* Browser events delivered to the lifecycle-managed animation.  Tasks run only
   when no continuation (microtask) is pending. *)

NoMicrotask == initPending = "none" /\ mountPending = "none"

\* handleVisibilityChange; the event toggles document.hidden
VisibilityChange ==
  /\ NoMicrotask
  /\ docHidden' = ~docHidden
  /\ IF "visibilitychange" \in listeners THEN
       /\ isVisible' = docHidden
       /\ SetAFM(IF docHidden /\ state = "active"
                 THEN startAnimation(AFM, TRUE, state)
                 ELSE cancelAllFrames(AFM))
     ELSE UNCHANGED <<isVisible, frameVars>>
  /\ lastEvent' = IF docHidden THEN "visible" ELSE "hidden"
  /\ UNCHANGED <<compVars, domVars, rectW, rectH, dpr, scrollY, now, timerVars,
                 canvasVars, lastUpdateTime, frameSkip, frameSkipMax, lastScrollY,
                 dragVars, saVars, inputs, touches, enableAnimations, appVars, explicitPause, bus, sm, drawn, nodeCount, connections, nodes>>

\* The browser runs one pending frame request of the manager: the wrapper of
\* requestFrame, then animate(currentTime).  thr: the step of this frame that throws.
FrameFireAt(e, thr, who, pert, currentTime) ==
  /\ NoMicrotask
  /\ e \in rafQueue /\ e.kind = "animate"
  /\ LET m0 == [ AFM EXCEPT !.queue = @ \ { e }, !.active = @ \ { e.id } ]
         dt == currentTime - lastUpdateTime
     IN
     IF m0.destroyed \/ ~isVisible \/ state # "active" THEN
       /\ SetAFM(m0)
       /\ lastEvent' = "frame:dropped"
       /\ UNCHANGED <<lastUpdateTime, frameSkip, nodes, connections, drawn>>
     ELSE IF skipsFrame(frameSkip + 1, frameSkipMax) THEN
       /\ frameSkip' = frameSkip + 1
       /\ SetAFM(startAnimation(m0, isVisible, state))
       /\ lastEvent' = "frame:skipped"
       /\ UNCHANGED <<lastUpdateTime, nodes, connections, drawn>>
     ELSE
       /\ frameSkip' = 0
       /\ lastUpdateTime' = currentTime
       /\ IF thr = "update" THEN
            /\ SetAFM(m0)
            /\ lastEvent' = "frame:threw"
            /\ UNCHANGED <<nodes, connections, drawn>>
          ELSE
            /\ \E rolls \in RollsFor(nodes, now) :
                 nodes' = updateChars(updateNodes(nodes, dt, who, pert), now, rolls)
            /\ connections' = connectionsOfFrame(nodes, nodes')
            /\ IF thr = "render" THEN
                 /\ SetAFM(m0)
                 /\ lastEvent' = "frame:threw"
                 /\ UNCHANGED drawn
               ELSE
                 /\ drawn' = render(nodes', connections')
                 /\ SetAFM(startAnimation(m0, isVisible, state))
                 /\ lastEvent' = "frame:rendered"
  /\ UNCHANGED <<compVars, domVars, envVars, timerVars, canvasVars, isVisible,
                 frameSkipMax, lastScrollY, dragVars, saVars, inputs, touches, enableAnimations, appVars, explicitPause, bus, sm, nodeCount>>

\* the timestamp the browser passes is the time of the frame
FrameFire(e, thr, who, pert) == FrameFireAt(e, thr, who, pert, now)

\* the layout box of the canvas or the device pixel ratio changes
LayoutChange(layouts) ==
  /\ NoMicrotask
  /\ \E l \in layouts :
       /\ l # <<rectW, rectH, dpr>>
       /\ rectW' = l[1] /\ rectH' = l[2] /\ dpr' = l[3]
  /\ lastEvent' = "env"
  /\ UNCHANGED <<compVars, frameVars, domVars, docHidden, scrollY, now, timerVars,
                 canvasVars, loopVars, dragVars, saVars, inputs, touches, enableAnimations, appVars, explicitPause, bus, sm, drawn, nodeCount, connections, nodes>>

\* the ResizeObserver callback: updateCanvasSize() only
ResizeObserverFire ==
  /\ NoMicrotask
  /\ observing
  /\ UpdateCanvasSize
  /\ lastEvent' = "resize:observer"
  /\ UNCHANGED <<compVars, frameVars, domVars, envVars, timerVars, loopVars, dragVars,
                 saVars, inputs, touches, enableAnimations, appVars, explicitPause, bus, sm, drawn, nodeCount, connections, nodes>>

\* throttle(func, delay), shared/utils/dom.ts: does this call run func at once?
throttleRunsNow(th, delay) == (Epoch + now) - th.last > delay

\* the closure state after a call that ran func at once
throttleAfterRun(th) == [ th EXCEPT !.last = Epoch + now ]

\* the closure state after a call that deferred func: clearTimeout, setTimeout
throttleAfterDefer(th, delay) ==
  [ th EXCEPT !.timer = now + (delay - ((Epoch + now) - th.last)) ]

\* the body of handleResize: updateCanvasSize(); repositionNodes()
HandleResize ==
  /\ UpdateCanvasSize
  /\ nodes' = repositionNodes(nodes, canvasW', canvasH')

\* window 'resize' event
WindowResize ==
  /\ NoMicrotask
  /\ "resize" \in listeners
  /\ IF throttleRunsNow(resizeThrottle, RESIZE_DELAY) THEN
       /\ HandleResize
       /\ resizeThrottle' = throttleAfterRun(resizeThrottle)
       /\ lastEvent' = "resize:window"
     ELSE
       /\ resizeThrottle' = throttleAfterDefer(resizeThrottle, RESIZE_DELAY)
       /\ lastEvent' = "resize:deferred"
       /\ UNCHANGED <<canvasVars, nodes>>
  /\ UNCHANGED <<compVars, frameVars, domVars, envVars, scrollThrottle, loopVars,
                 dragVars, saVars, inputs, touches, enableAnimations, appVars, explicitPause, bus, sm, drawn, nodeCount, connections>>

\* the timer armed by the throttled resize handler fires
ResizeTimerFire ==
  /\ NoMicrotask
  /\ resizeThrottle.timer >= 0 /\ now >= resizeThrottle.timer
  /\ HandleResize
  /\ resizeThrottle' = [ last |-> Epoch + now, timer |-> -1 ]
  /\ lastEvent' = "resize:timer"
  /\ UNCHANGED <<compVars, frameVars, domVars, envVars, scrollThrottle, loopVars,
                 dragVars, saVars, inputs, touches, enableAnimations, appVars, explicitPause, bus, sm, drawn, nodeCount, connections>>

\* variant: the upper step taken at the threshold itself
HandleScrollInclusive(y) ==
  /\ lastScrollY' = y
  /\ frameSkipMax' = IF Abs(y - lastScrollY) >= FRAME_SKIP_THRESHOLD THEN 4
                     ELSE IF Abs(y - lastScrollY) > 5 THEN 2 ELSE 1

\* the body of handleScroll
HandleScroll(y) ==
  /\ lastScrollY' = y
  /\ frameSkipMax' = IF Abs(y - lastScrollY) > FRAME_SKIP_THRESHOLD THEN 4
                     ELSE IF Abs(y - lastScrollY) > 5 THEN 2 ELSE 1

\* the page scrolls to y and the window 'scroll' event is delivered
ScrollEvent(y) ==
  /\ NoMicrotask
  /\ y # scrollY
  /\ scrollY' = y
  /\ IF "scroll" \notin listeners THEN
       /\ lastEvent' = "scroll:unheard"
       /\ UNCHANGED <<scrollThrottle, lastScrollY, frameSkipMax>>
     ELSE IF throttleRunsNow(scrollThrottle, SCROLL_DELAY) THEN
       /\ HandleScroll(y)
       /\ scrollThrottle' = throttleAfterRun(scrollThrottle)
       /\ lastEvent' = "scroll:sampled"
     ELSE
       /\ scrollThrottle' = throttleAfterDefer(scrollThrottle, SCROLL_DELAY)
       /\ lastEvent' = "scroll:deferred"
       /\ UNCHANGED <<lastScrollY, frameSkipMax>>
  /\ UNCHANGED <<compVars, frameVars, domVars, docHidden, rectW, rectH, dpr, now,
                 resizeThrottle, canvasVars, isVisible, lastUpdateTime, frameSkip,
                 dragVars, saVars, inputs, touches, enableAnimations, appVars, explicitPause, bus, sm, drawn, nodeCount, connections, nodes>>

\* the timer armed by the throttled scroll handler fires
ScrollTimerFire ==
  /\ NoMicrotask
  /\ scrollThrottle.timer >= 0 /\ now >= scrollThrottle.timer
  /\ HandleScroll(scrollY)
  /\ scrollThrottle' = [ last |-> Epoch + now, timer |-> -1 ]
  /\ lastEvent' = "scroll:timer"
  /\ UNCHANGED <<compVars, frameVars, domVars, envVars, resizeThrottle, canvasVars,
                 isVisible, lastUpdateTime, frameSkip, dragVars, saVars, inputs, touches, enableAnimations, appVars, explicitPause, bus, sm, drawn, nodeCount, connections, nodes>>

\* time passes
Tick(d, max) ==
  /\ NoMicrotask
  /\ now + d <= max
  /\ now' = now + d
  /\ lastEvent' = "env"
  /\ UNCHANGED <<compVars, frameVars, domVars, docHidden, rectW, rectH, dpr, scrollY,
                 timerVars, canvasVars, loopVars, dragVars, saVars, inputs, touches, enableAnimations, appVars, explicitPause, bus, sm, drawn, nodeCount, connections, nodes>>

----------------------------------------------------------------------------
(* Pointer and touch input (setupMouseEventListeners) *)

\* the press branch shared by handleMouseDown and handleTouchStart
Press(p) ==
  LET i == findNodeAtPosition(nodes, p) IN
  IF i # 0 THEN
    /\ isDragging' = TRUE
    /\ draggedNode' = i
    /\ mouseOffset' = <<p[1] - nodes[i].x, p[2] - nodes[i].y>>
    /\ nodes' = [ nodes EXCEPT ![i] =
                    [ @ EXCEPT !.hasOriginal = TRUE,
                               !.originalVx = nodes[i].vx,
                               !.originalVy = nodes[i].vy,
                               !.isDragging = TRUE,
                               !.vx = 0, !.vy = 0 ] ]
    /\ lastEvent' = "press:hit"
  ELSE
    /\ lastEvent' = "press:miss"
    /\ UNCHANGED <<dragVars, nodes>>

\* variant: the drag branch without the clamp to the canvas
DragToUnclamped(p) ==
  /\ nodes' = [ nodes EXCEPT ![draggedNode] =
                  [ @ EXCEPT !.x = p[1] - mouseOffset[1],
                             !.y = p[2] - mouseOffset[2] ] ]
  /\ UNCHANGED dragVars

\* the drag branch shared by handleMouseMove and handleTouchMove
DragTo(p) ==
  /\ nodes' = [ nodes EXCEPT ![draggedNode] =
                  [ @ EXCEPT !.x = clamp(p[1] - mouseOffset[1], 0, canvasWidth),
                             !.y = clamp(p[2] - mouseOffset[2], 0, canvasHeight) ] ]
  /\ UNCHANGED dragVars

\* `original || random`: undefined and 0 are both falsy
orRandom(has, original, random) == IF has /\ original # 0 THEN original ELSE random

\* the body shared by handleMouseUp and handleTouchEnd
Release(rx, ry) ==
  /\ IF isDragging /\ draggedNode # 0 THEN
       nodes' = [ nodes EXCEPT ![draggedNode] =
                    [ @ EXCEPT !.vx = orRandom(nodes[draggedNode].hasOriginal,
                                               nodes[draggedNode].originalVx, rx),
                               !.vy = orRandom(nodes[draggedNode].hasOriginal,
                                               nodes[draggedNode].originalVy, ry),
                               !.isDragging = FALSE,
                               !.hasOriginal = FALSE,
                               !.originalVx = 0, !.originalVy = 0 ] ]
     ELSE UNCHANGED nodes
  /\ isDragging' = FALSE
  /\ draggedNode' = 0
  /\ UNCHANGED mouseOffset

\* a mouse event, or the start of a touch, is delivered to the canvas only for a
\* point of its layout box
OnCanvas(p) == p[1] <= RectW * PX /\ p[2] <= RectH * PX

InputFrame ==
  /\ inputs' = inputs + 1
  /\ UNCHANGED <<compVars, frameVars, domVars, envVars, timerVars, canvasVars, loopVars,
                 saVars, nodeCount, connections, drawn, enableAnimations, appVars, explicitPause, bus, sm>>

handleMouseDown(p) ==
  /\ NoMicrotask /\ "mousedown" \in listeners /\ OnCanvas(p)
  /\ Press(p)
  /\ UNCHANGED touches
  /\ InputFrame

handleMouseMove(p) ==
  /\ NoMicrotask /\ "mousemove" \in listeners /\ OnCanvas(p)
  /\ IF isDragging /\ draggedNode # 0
     THEN DragTo(p) /\ lastEvent' = "move:drag"
     ELSE UNCHANGED <<dragVars, nodes>> /\ lastEvent' = "input:noop"
  /\ UNCHANGED touches
  /\ InputFrame

handleMouseUp ==
  /\ NoMicrotask /\ "mouseup" \in listeners
  /\ \E rx \in ReleaseRandoms, ry \in ReleaseRandoms : Release(rx, ry)
  /\ lastEvent' = "release"
  /\ UNCHANGED touches
  /\ InputFrame

\* 'mouseleave' is bound to handleMouseUp
handleMouseLeave ==
  /\ NoMicrotask /\ "mouseleave" \in listeners
  /\ \E rx \in ReleaseRandoms, ry \in ReleaseRandoms : Release(rx, ry)
  /\ lastEvent' = "release"
  /\ UNCHANGED touches
  /\ InputFrame

\* A touch point goes down on the canvas: event.touches then holds k = touches + 1
\* points, p is event.touches[0], the oldest of them (for k = 1 the new one).
handleTouchStart(p) ==
  /\ NoMicrotask /\ "touchstart" \in listeners /\ OnCanvas(p)
  /\ touches < MaxTouches
  /\ touches' = touches + 1
  /\ IF touches' = 1 THEN Press(p)
     ELSE UNCHANGED <<dragVars, nodes>> /\ lastEvent' = "input:noop"
  /\ InputFrame

\* One of the touch points moves: event.touches.length = touches, p = event.touches[0]
handleTouchMove(p) ==
  /\ NoMicrotask /\ "touchmove" \in listeners
  /\ touches >= 1
  /\ IF touches = 1 /\ isDragging /\ draggedNode # 0
     THEN DragTo(p) /\ lastEvent' = "move:drag"
     ELSE /\ UNCHANGED <<dragVars, nodes>>
          /\ lastEvent' = IF touches = 1 THEN "input:noop" ELSE "touchmove:multi"
  /\ UNCHANGED touches
  /\ InputFrame

\* The touch point `which` lifts (1 = the oldest, the one that was down alone when
\* a touch drag began).  The handler takes no event argument and does not look at
\* the touches that remain.
handleTouchEnd(which) ==
  /\ NoMicrotask /\ "touchend" \in listeners
  /\ which \in 1 .. touches
  /\ touches' = touches - 1
  /\ \E rx \in ReleaseRandoms, ry \in ReleaseRandoms : Release(rx, ry)
  /\ lastEvent' = IF which = 1 THEN "release" ELSE "release:further"
  /\ InputFrame

----------------------------------------------------------------------------
(* Settings (settings/SettingsManager, settings/global) *)

\* applySettings: the class `animations-disabled` of <body>
animationsDisabledClass == ~enableAnimations

\* toggleAnimations() of the settings module: setSetting('enableAnimations',
\* !currentValue), which stores the value, emits onSettingChanged (no handler is
\* registered by the application), applies the body classes and saves
ToggleAnimationsSetting ==
  /\ enableAnimations' = ~enableAnimations
  /\ lastEvent' = "setting"
  /\ UNCHANGED <<compVars, frameVars, domVars, envVars, timerVars, canvasVars, loopVars,
                 dragVars, saVars, nodeCount, nodes, connections, inputs, touches, appVars, explicitPause, bus, sm, drawn>>

----------------------------------------------------------------------------
(* Specifications *)

Throws == { "none", "update", "render" }

Frames(throws, whos) ==
  \E e \in rafQueue, thr \in throws, who \in whos, pert \in Perturbations :
    FrameFire(e, thr, who, pert)

\* Lifecycle and scheduling of the lifecycle-managed animation
Init == InitWith(BOOLEAN, { 1 }, { 0 })

Next ==
  \/ Initialize
  \/ InitSettle
  \/ Mount
  \/ MountSettle
  \/ Activate
  \/ Pause
  \/ Destroy
  \/ VisibilityChange
  \/ Frames(Throws, { 0 })
  \/ LayoutChange(Layouts)
  \/ ResizeObserverFire
  \/ WindowResize
  \/ ResizeTimerFire
  \/ Tick(TickMs, MaxTime)

Spec == Init /\ [][Next]_vars

\* Simulation and input of the lifecycle-managed animation
\* the page has been loading for a while when the animation is constructed
InitDrag == InitWith({ FALSE }, { 2 }, { LoadTime })

\* the page is up: the user and the layout act on a mounted, activated animation
Interactive == state = "active"
UserActs == Interactive /\ inputs < MaxInputs

NextDrag ==
  \/ Initialize
  \/ InitSettle
  \/ Mount
  \/ MountSettle
  \/ VisibilityChange
  \/ Frames({ "none" }, { 0 })
  \/ UserActs /\ \E p \in Pointers : handleMouseDown(p)
  \/ UserActs /\ \E p \in MoveTargets : handleMouseMove(p)
  \/ UserActs /\ handleMouseUp
  \/ UserActs /\ handleMouseLeave
  \/ UserActs /\ \E p \in Pointers : handleTouchStart(p)
  \/ UserActs /\ \E p \in MoveTargets : handleTouchMove(p)
  \/ UserActs /\ \E which \in 1 .. MaxTouches : handleTouchEnd(which)
  \/ Interactive /\ LayoutChange(DragLayouts)
  \/ Interactive /\ ResizeObserverFire

SpecDrag == InitDrag /\ [][NextDrag]_vars

----------------------------------------------------------------------------
(* Connections: an active animation on a large canvas whose three nodes sit at
   chosen points, with its first frame pending *)

ConnLayout == <<800, 600, 1>>
ConnPoints == { <<0, 0>>, <<100 * PX, 0>>, <<400 * PX, 0>>, <<90 * PX, 120 * PX>>,
                <<MAX_CONNECTION_DISTANCE * PX - 40, 0>> }
ConnVelocity == <<25, 0>>

\* the state after initialize(), mount() and one hidden/visible change of the page,
\* all before the first frame
InitConnections ==
  /\ nodeCount = 3
  /\ docHidden = FALSE
  /\ rectW = ConnLayout[1] /\ rectH = ConnLayout[2] /\ dpr = ConnLayout[3]
  /\ scrollY = 0 /\ now = 0
  /\ resizeThrottle = NoThrottle /\ scrollThrottle = NoThrottle
  /\ amDestroyed = FALSE
  /\ activeAnimations = { 1 } /\ rafQueue = { [ id |-> 1, kind |-> "animate" ] }
  /\ state = "active" /\ initPending = "none" /\ mountPending = "none"
  /\ cleanupFunctions = CleanupNames /\ listeners = ListenerNames
  /\ observing = TRUE /\ canvasInDom = TRUE
  /\ canvasW = rectW * dpr /\ canvasH = rectH * dpr /\ ctxScale = dpr
  /\ nodes \in [ 1..nodeCount -> { NewNode(pt, ConnVelocity) : pt \in ConnPoints } ]
  /\ connections = <<>>
  /\ isVisible = TRUE /\ lastUpdateTime = 0
  /\ frameSkip = 0 /\ frameSkipMax = 1 /\ lastScrollY = 0
  /\ isDragging = FALSE /\ draggedNode = 0 /\ mouseOffset = <<0, 0>>
  /\ animationId = 0 /\ ticking = FALSE
  /\ inputs = 0
  /\ touches = 0
  /\ appState = "none" /\ animationsEnabled = TRUE
  /\ explicitPause = FALSE
  /\ bus = EmptyBus
  /\ sm = NewSettingsManager
  /\ drawn = <<>>
  /\ enableAnimations = TRUE
  /\ lastEvent = "visible"

NextConnections ==
  \/ Frames({ "none" }, { 0 })
  \/ Tick(TickMs, MaxTime)

SpecConnections == InitConnections /\ [][NextConnections]_vars

----------------------------------------------------------------------------
(* Velocities: one node, frames that perturb its direction, press and release *)

InitVelocity == InitWith({ FALSE }, { 1 }, { LoadTime })

NextVelocity ==
  \/ Initialize
  \/ InitSettle
  \/ Mount
  \/ MountSettle
  \/ VisibilityChange
  \/ Frames({ "none" }, { 0, 1 })
  \/ UserActs /\ \E p \in Pointers : handleMouseDown(p)
  \/ UserActs /\ handleMouseUp

SpecVelocity == InitVelocity /\ [][NextVelocity]_vars

----------------------------------------------------------------------------
(* The update as a function of the time delta: animate(currentTime) applied to
   timestamps before, at and after lastUpdateTime *)

FrameTimes == { 0, TickMs, LoadTime }

InitUpdate == InitWith({ FALSE }, { 1 }, { TickMs })

NextUpdate ==
  \/ Initialize
  \/ InitSettle
  \/ Mount
  \/ MountSettle
  \/ VisibilityChange
  \/ \E e \in rafQueue, t \in FrameTimes : FrameFireAt(e, "none", 0, <<>>, t)
  \/ Interactive /\ LayoutChange(Layouts)
  \/ Interactive /\ ResizeObserverFire

SpecUpdate == InitUpdate /\ [][NextUpdate]_vars

----------------------------------------------------------------------------
(* Characters: one node over the seconds in which its character comes due, free
   and held *)

GlyphTick == 1500
GlyphHorizon == 4 * GlyphTick

InitGlyph == InitWith({ FALSE }, { 1 }, { 0 })

NextGlyph ==
  \/ Initialize
  \/ InitSettle
  \/ Mount
  \/ MountSettle
  \/ VisibilityChange
  \/ Frames({ "none" }, { 0 })
  \/ UserActs /\ \E p \in Pointers : handleMouseDown(p)
  \/ UserActs /\ handleMouseUp
  \/ Tick(GlyphTick, GlyphHorizon)

SpecGlyph == InitGlyph /\ [][NextGlyph]_vars

----------------------------------------------------------------------------
(* Settings: the animation, its lifecycle and the enableAnimations setting *)

InitSettings == InitWith({ FALSE }, { 1 }, { 0 })

NextSettings ==
  \/ Initialize
  \/ InitSettle
  \/ Mount
  \/ MountSettle
  \/ Activate
  \/ Pause
  \/ VisibilityChange
  \/ Frames({ "none" }, { 0 })
  \/ ToggleAnimationsSetting
  \/ Tick(TickMs, MaxTime)

SpecSettings == InitSettings /\ [][NextSettings]_vars

----------------------------------------------------------------------------
(* The application (App): it constructs the animation inside its own onInit(),
   mounts it in onMount(), and drives it from its visibilitychange listener and
   from toggleAnimations() *)

\* the fps values a performance:warning event carries
FpsSamples == { 15, 25 }

\* a continuation of App.start() is pending
AppBusy == appState \in { "initializing", "mounting" }

\* State after the synchronous part of App.initialize(): onInit() has registered
\* the listeners of the App and run `new NodeNetworkAnimation({...})` (autoInit)
InitApp ==
  /\ InitAnimation({ TRUE }, { 1 }, { 0 })
  /\ appState = "initializing" /\ animationsEnabled = TRUE
  /\ explicitPause = FALSE
  /\ bus = EmptyBus
  /\ sm = NewSettingsManager

\* App.start() after `await this.initialize()`: mount() calls onMount(), which
\* calls nodeNetworkAnimation.mount(); that call throws unless the animation is
\* INITIALIZED, and the throw puts the App into ERROR
AppMount ==
  /\ appState = "initializing" /\ initPending = "none"
  /\ IF state = "initialized"
     THEN mountPending' = "awaitMount" /\ appState' = "mounting"
     ELSE mountPending' = mountPending /\ appState' = "error"
  /\ lastEvent' = "app:mount"
  /\ UNCHANGED <<state, initPending, cleanupFunctions, frameVars, domVars, envVars,
                 timerVars, canvasVars, loopVars, dragVars, saVars, nodeCount, nodes,
                 connections, inputs, touches, enableAnimations, animationsEnabled, explicitPause, bus, sm, drawn>>

\* App.mount() after `await this.onMount()`: setState(MOUNTED); this.activate(),
\* whose onActivate() calls nodeNetworkAnimation.activate()
AppMountSettle ==
  /\ appState = "mounting" /\ mountPending = "none"
  /\ DoActivate(state)
  /\ appState' = "active"
  /\ lastEvent' = "app:mounted"
  /\ UNCHANGED <<initPending, mountPending, cleanupFunctions, domVars, envVars, timerVars,
                 canvasVars, lastUpdateTime, frameSkip, frameSkipMax, lastScrollY,
                 dragVars, saVars, nodeCount, nodes, connections, inputs, touches,
                 enableAnimations, animationsEnabled, explicitPause, bus, sm, drawn>>

\* nodeNetworkAnimation.pause() / activate() as a function of the animation's
\* state st and frame manager m: the state and the manager afterwards
animationPause(st, m) ==
  IF st = "active" THEN [ state |-> "paused", afm |-> cancelAllFrames(m), touched |-> TRUE ]
  ELSE [ state |-> st, afm |-> m, touched |-> FALSE ]

animationActivate(st, m) ==
  IF st \in { "mounted", "paused" }
  THEN [ state |-> "active", afm |-> startAnimation(m, TRUE, st), touched |-> TRUE ]
  ELSE [ state |-> st, afm |-> m, touched |-> FALSE ]

\* the App's visibilitychange listener on a document that became visible:
\* this.activate(), which runs onActivate() from MOUNTED or PAUSED
appShows(st, m, appSt) ==
  IF appSt \in { "mounted", "paused" }
  THEN animationActivate(st, m) ELSE [ state |-> st, afm |-> m, touched |-> FALSE ]

\* ... and on a document that became hidden: this.pause(), from ACTIVE only
appHides(st, m, appSt) ==
  IF appSt = "active"
  THEN animationPause(st, m) ELSE [ state |-> st, afm |-> m, touched |-> FALSE ]

\* A visibilitychange event with the App around the animation.  The App added its
\* listener before it constructed the animation, so its listener runs first and the
\* animation's handleVisibilityChange second, on the state the first one left.
AppVisibilityChange ==
  /\ ~AppBusy /\ NoMicrotask
  /\ docHidden' = ~docHidden
  /\ LET hidden == ~docHidden
         r == IF hidden THEN appHides(state, AFM, appState)
              ELSE appShows(state, AFM, appState)
     IN /\ appState' = IF hidden /\ appState = "active" THEN "paused"
                       ELSE IF ~hidden /\ appState \in { "mounted", "paused" } THEN "active"
                       ELSE appState
        /\ state' = r.state
        /\ IF "visibilitychange" \in listeners THEN
             /\ isVisible' = ~hidden
             /\ SetAFM(IF ~hidden /\ r.state = "active"
                       THEN startAnimation(r.afm, TRUE, r.state)
                       ELSE cancelAllFrames(r.afm))
           ELSE
             /\ isVisible' = IF r.touched THEN ~hidden ELSE isVisible
             /\ SetAFM(r.afm)
  /\ lastEvent' = IF docHidden THEN "app:visible" ELSE "app:hidden"
  /\ UNCHANGED <<initPending, mountPending, cleanupFunctions, domVars, rectW, rectH, dpr,
                 scrollY, now, timerVars, canvasVars, lastUpdateTime, frameSkip,
                 frameSkipMax, lastScrollY, dragVars, saVars, nodeCount, nodes, connections,
                 inputs, touches, enableAnimations, animationsEnabled, explicitPause, bus, sm, drawn>>

\* App.toggleAnimations(enable)
toggleAnimations(enable) ==
  /\ ~AppBusy /\ NoMicrotask
  /\ animationsEnabled' = enable
  /\ LET r == IF enable THEN animationActivate(state, AFM) ELSE animationPause(state, AFM)
     IN /\ state' = r.state
        /\ SetAFM(r.afm)
        /\ isVisible' = IF r.touched THEN enable ELSE isVisible
  /\ lastEvent' = IF enable THEN "toggle:on" ELSE "toggle:off"
  /\ UNCHANGED <<initPending, mountPending, cleanupFunctions, domVars, envVars, timerVars,
                 canvasVars, lastUpdateTime, frameSkip, frameSkipMax, lastScrollY,
                 dragVars, saVars, nodeCount, nodes, connections, inputs, touches,
                 enableAnimations, appState, explicitPause, bus, sm, drawn>>

\* the listener of `performance:warning` added by initializePerformanceMonitoring
PerformanceWarning(fps) ==
  /\ IF fps < 20 /\ animationsEnabled
     THEN toggleAnimations(FALSE)
     ELSE /\ ~AppBusy /\ NoMicrotask
          /\ lastEvent' = "warning:ignored"
          /\ UNCHANGED <<compVars, frameVars, domVars, envVars, timerVars, canvasVars,
                         loopVars, dragVars, saVars, nodeCount, nodes, connections,
                         inputs, touches, enableAnimations, appVars, explicitPause, bus, sm, drawn>>

NextApp ==
  \/ InitSettle
  \/ AppMount
  \/ MountSettle
  \/ AppMountSettle
  \/ AppVisibilityChange
  \/ \E enable \in BOOLEAN : toggleAnimations(enable)
  \/ \E fps \in FpsSamples : PerformanceWarning(fps)
  \/ Frames({ "none" }, { 0 })
  \/ Tick(TickMs, MaxTime)

SpecApp == InitApp /\ [][NextApp]_vars

----------------------------------------------------------------------------
(* Lifecycle calls that the component refuses.  initialize() and mount() are async
   methods: their `throw` rejects the promise they return and changes nothing. *)

\* initialize() in a state other than CREATED: the guard throws before
\* initializationPromise is looked at
InitializeThrows ==
  /\ state # "created"
  /\ lastEvent' = "initialize:rejected"
  /\ UNCHANGED <<compVars, frameVars, domVars, envVars, timerVars, canvasVars, loopVars,
                 dragVars, saVars, nodeCount, nodes, connections, inputs, touches,
                 enableAnimations, appVars, explicitPause, bus, sm, drawn>>

\* mount() in a state other than INITIALIZED and CREATED: thrown outside the try
MountThrows ==
  /\ state \notin { "initialized", "created" }
  /\ lastEvent' = "mount:rejected"
  /\ UNCHANGED <<compVars, frameVars, domVars, envVars, timerVars, canvasVars, loopVars,
                 dragVars, saVars, nodeCount, nodes, connections, inputs, touches,
                 enableAnimations, appVars, explicitPause, bus, sm, drawn>>

\* the animation as the application constructs it (autoInit), and its callers
InitJoin == InitWith({ TRUE }, { 1 }, { 0 })

NextJoin ==
  \/ InitializeThrows
  \/ MountThrows
  \/ InitSettle
  \/ Mount
  \/ MountSettle
  \/ Pause
  \/ Activate
  \/ VisibilityChange
  \/ Frames({ "none" }, { 0 })
  \/ Tick(TickMs, MaxTime)

SpecJoin == InitJoin /\ [][NextJoin]_vars

----------------------------------------------------------------------------
(* The event bus and its callers *)

BusOn(l) ==
  /\ bus.ops < MaxBusOps
  /\ bus' = busSettled(busOn(bus, l))
  /\ lastEvent' = "bus:on"
  /\ UNCHANGED <<compVars, frameVars, domVars, envVars, timerVars, canvasVars, loopVars,
                 dragVars, saVars, nodeCount, nodes, connections, inputs, touches,
                 enableAnimations, appVars, explicitPause, sm, drawn>>

BusOnce(l) ==
  /\ bus.ops < MaxBusOps
  /\ bus' = busSettled(busOnce(bus, l))
  /\ lastEvent' = "bus:once"
  /\ UNCHANGED <<compVars, frameVars, domVars, envVars, timerVars, canvasVars, loopVars,
                 dragVars, saVars, nodeCount, nodes, connections, inputs, touches,
                 enableAnimations, appVars, explicitPause, sm, drawn>>

BusOff(l) ==
  /\ bus.ops < MaxBusOps
  /\ bus' = busSettled(busOff(bus, l))
  /\ lastEvent' = "bus:off"
  /\ UNCHANGED <<compVars, frameVars, domVars, envVars, timerVars, canvasVars, loopVars,
                 dragVars, saVars, nodeCount, nodes, connections, inputs, touches,
                 enableAnimations, appVars, explicitPause, sm, drawn>>

BusEmit ==
  /\ bus.ops < MaxBusOps
  /\ bus' = busSettled(busEmit(bus))
  /\ lastEvent' = "bus:emit"
  /\ UNCHANGED <<compVars, frameVars, domVars, envVars, timerVars, canvasVars, loopVars,
                 dragVars, saVars, nodeCount, nodes, connections, inputs, touches,
                 enableAnimations, appVars, explicitPause, sm, drawn>>

InitBus == InitWith({ FALSE }, { 1 }, { 0 })

NextBus ==
  \/ \E l \in ListenerIds : BusOn(l)
  \/ \E l \in ListenerIds : BusOnce(l)
  \/ \E l \in ListenerIds : BusOff(l)
  \/ BusEmit

SpecBus == InitBus /\ [][NextBus]_vars

----------------------------------------------------------------------------
(* The settings manager and its callers: the settings panel and updateSetting of
   settings/global, none of which passes skipValidation *)

SetSetting(key, value) ==
  /\ sm' = setSetting(sm, key, value, FALSE)
  /\ lastEvent' = "setSetting"
  /\ UNCHANGED <<compVars, frameVars, domVars, envVars, timerVars, canvasVars, loopVars,
                 dragVars, saVars, nodeCount, nodes, connections, inputs, touches,
                 enableAnimations, appVars, explicitPause, bus, drawn>>

InitManager == InitWith({ FALSE }, { 1 }, { 0 })

NextManager ==
  \/ \E in \in SettingInputs : SetSetting(in[1], in[2])
  \/ ToggleAnimationsSetting

SpecManager == InitManager /\ [][NextManager]_vars

----------------------------------------------------------------------------
(* Scrolling: the animation as the application constructs it (autoInit), the
   throttled scroll handler, and the frame loop under the threshold it sets *)

InitScroll == InitWith({ TRUE }, { 1 }, { 0 })

NextScroll ==
  \/ InitSettle
  \/ Mount
  \/ MountSettle
  \/ VisibilityChange
  \/ Frames({ "none" }, { 0 })
  \/ \E y \in ScrollYs : ScrollEvent(y)
  \/ ScrollTimerFire
  \/ Tick(TickMs, MaxTime)

SpecScroll == InitScroll /\ [][NextScroll]_vars

----------------------------------------------------------------------------
(* The standalone class (src/animations/NodeNetworkAnimation.ts).  It shares the
   variables of the animation object; it has no Component state, no manager and
   no pointer input (pointer-events: none). *)

StandaloneListeners == { "resize", "scroll", "visibilitychange" }

\* requestAnimationFrame(cb) on the queue q
sRequest(q, kind) ==
  LET used == { e.id : e \in q } \cup { animationId }
      id == CHOOSE i \in 1..(Cardinality(used) + 1) : i \notin used
  IN [ queue |-> q \cup { [ id |-> id, kind |-> kind ] }, id |-> id ]

\* repositionNodes of the standalone class: only nodes beyond the right/bottom edge
sRepositionNodes(ns, w, h) ==
  [ i \in DOMAIN ns |->
      [ ns[i] EXCEPT !.x = IF @ > canvasWidthOf(w) THEN canvasWidthOf(w) - MARGIN * PX ELSE @,
                     !.y = IF @ > canvasHeightOf(h) THEN canvasHeightOf(h) - MARGIN * PX ELSE @ ] ]

\* animate(currentTime) entered with the frame queue q
sAnimate(q, vis) ==
  IF ~vis THEN
    /\ animationId' = 0
    /\ rafQueue' = q
    /\ lastEvent' = "frame:dropped"
    /\ UNCHANGED <<frameSkip, lastUpdateTime, nodes, connections, drawn>>
  ELSE IF skipsFrame(frameSkip + 1, frameSkipMax) THEN
    /\ frameSkip' = frameSkip + 1
    /\ rafQueue' = sRequest(q, "sanimate").queue
    /\ animationId' = sRequest(q, "sanimate").id
    /\ lastEvent' = "frame:skipped"
    /\ UNCHANGED <<lastUpdateTime, nodes, connections, drawn>>
  ELSE
    /\ frameSkip' = 0
    /\ lastUpdateTime' = now
    /\ \E rolls \in RollsFor(nodes, now) :
         nodes' = updateChars(updateNodes(nodes, now - lastUpdateTime, 0, <<>>), now, rolls)
    /\ connections' = connectionsOfFrame(nodes, nodes')
    /\ drawn' = render(nodes', connections')
    /\ rafQueue' = sRequest(q, "sanimate").queue
    /\ animationId' = sRequest(q, "sanimate").id
    /\ lastEvent' = "frame:rendered"

\* State after `new NodeNetworkAnimation(canvas, nodeCount)`: setupCanvas, initNodes,
\* setupScrollOptimization, animate(0) (frameSkipMax starts at 2: the first call skips)
InitStandalone ==
  /\ nodeCount = 1
  /\ docHidden = FALSE
  /\ rectW = InitialLayout[1] /\ rectH = InitialLayout[2] /\ dpr = InitialLayout[3]
  /\ scrollY = 0 /\ now = 0
  /\ resizeThrottle = NoThrottle /\ scrollThrottle = NoThrottle
  /\ amDestroyed = FALSE /\ activeAnimations = {}
  /\ state = "created" /\ initPending = "none" /\ mountPending = "none"
  /\ cleanupFunctions = {}
  /\ canvasInDom = TRUE /\ observing = FALSE
  /\ listeners = StandaloneListeners
  /\ canvasW = rectW * dpr /\ canvasH = rectH * dpr /\ ctxScale = dpr
  /\ nodes \in [ 1..nodeCount -> InitNodeSet(rectW * PX, rectH * PX) ]
  /\ connections = <<>>
  /\ isVisible = TRUE /\ lastUpdateTime = 0
  /\ frameSkip = 1 /\ frameSkipMax = 2 /\ lastScrollY = 0
  /\ rafQueue = { [ id |-> 1, kind |-> "sanimate" ] }
  /\ animationId = 1 /\ ticking = FALSE
  /\ isDragging = FALSE /\ draggedNode = 0 /\ mouseOffset = <<0, 0>>
  /\ inputs = 0
  /\ touches = 0
  /\ appState = "none" /\ animationsEnabled = TRUE
  /\ explicitPause = FALSE
  /\ bus = EmptyBus
  /\ sm = NewSettingsManager
  /\ drawn = <<>>
  /\ enableAnimations = TRUE
  /\ lastEvent = "constructed"

sFixed == <<compVars, amDestroyed, activeAnimations, domVars, timerVars, dragVars,
            inputs, touches, enableAnimations, appVars, bus, sm, nodeCount>>

\* the browser runs the pending animate callback
sFrameFire(e) ==
  /\ e \in rafQueue /\ e.kind = "sanimate"
  /\ sAnimate(rafQueue \ { e }, isVisible)
  /\ Cardinality(rafQueue') <= MaxRaf
  /\ UNCHANGED <<sFixed, explicitPause, envVars, canvasVars, isVisible, frameSkipMax, lastScrollY, ticking>>

\* the 'visibilitychange' listener of setupScrollOptimization
sVisibilityChange ==
  /\ docHidden' = ~docHidden
  /\ isVisible' = docHidden
  /\ IF docHidden /\ animationId = 0
     THEN sAnimate(rafQueue, TRUE)
     ELSE /\ lastEvent' = IF docHidden THEN "visible" ELSE "hidden"
          /\ UNCHANGED <<animationId, rafQueue, frameSkip, lastUpdateTime, nodes, connections, drawn>>
  /\ Cardinality(rafQueue') <= MaxRaf
  /\ UNCHANGED <<sFixed, explicitPause, rectW, rectH, dpr, scrollY, now, canvasVars, frameSkipMax,
                 lastScrollY, ticking>>

\* pause(): cancelAnimationFrame(animationId)
sPauseBody ==
  /\ explicitPause' = TRUE
  /\ isVisible' = FALSE
  /\ rafQueue' = { e \in rafQueue : e.id # animationId }
  /\ animationId' = 0

sPause ==
  /\ sPauseBody
  /\ lastEvent' = "pause"
  /\ UNCHANGED <<sFixed, envVars, canvasVars, lastUpdateTime, frameSkip, frameSkipMax,
                 lastScrollY, ticking, nodes, connections, drawn>>

\* resume()
sResume ==
  /\ ~isVisible
  /\ explicitPause' = FALSE
  /\ isVisible' = TRUE
  /\ sAnimate(rafQueue, TRUE)
  /\ Cardinality(rafQueue') <= MaxRaf
  /\ UNCHANGED <<sFixed, envVars, canvasVars, frameSkipMax, lastScrollY, ticking>>

\* destroy(): pause(), and a removeEventListener that names a new closure
sDestroy ==
  /\ sPauseBody
  /\ lastEvent' = "destroy"
  /\ UNCHANGED <<sFixed, envVars, canvasVars, lastUpdateTime, frameSkip, frameSkipMax,
                 lastScrollY, ticking, nodes, connections, drawn>>

\* window 'resize': updateCanvasSize(), which ends with repositionNodes()
sResize ==
  /\ "resize" \in listeners
  /\ UpdateCanvasSize
  /\ nodes' = sRepositionNodes(nodes, canvasW', canvasH')
  /\ lastEvent' = "resize:window"
  /\ UNCHANGED <<sFixed, explicitPause, frameVars, envVars, loopVars, saVars, connections, drawn>>

\* window 'scroll': one sample per frame
sScroll(y) ==
  /\ y # scrollY
  /\ scrollY' = y
  /\ IF ticking THEN UNCHANGED <<rafQueue, ticking>>
     ELSE /\ rafQueue' = sRequest(rafQueue, "scroll").queue
          /\ ticking' = TRUE
  /\ Cardinality(rafQueue') <= MaxRaf
  /\ lastEvent' = "scroll:deferred"
  /\ UNCHANGED <<sFixed, explicitPause, docHidden, rectW, rectH, dpr, now, canvasVars, loopVars,
                 animationId, nodes, connections, drawn>>

\* the browser runs the pending scroll sample
sScrollFrame(e) ==
  /\ e \in rafQueue /\ e.kind = "scroll"
  /\ rafQueue' = rafQueue \ { e }
  /\ HandleScroll(scrollY)
  /\ ticking' = FALSE
  /\ lastEvent' = "scroll:sampled"
  /\ UNCHANGED <<sFixed, explicitPause, envVars, canvasVars, isVisible, lastUpdateTime, frameSkip,
                 animationId, nodes, connections, drawn>>

NextStandalone ==
  \/ \E e \in rafQueue : sFrameFire(e)
  \/ sVisibilityChange
  \/ sPause
  \/ sResume
  \/ sDestroy
  \/ LayoutChange(Layouts)
  \/ sResize
  \/ Tick(TickMs, MaxTime)

SpecStandalone == InitStandalone /\ [][NextStandalone]_vars

TypeOK ==
  /\ state \in { "created", "initializing", "initialized", "mounted", "active",
                 "paused", "unmounting", "destroyed", "error" }
  /\ draggedNode \in 0..Len(nodes)

----------------------------------------------------------------------------
(* Properties *)

Dragging == { i \in DOMAIN nodes : nodes[i].isDragging }
AnimationFrames == { e \in rafQueue : e.kind \in { "animate", "sanimate" } }
FrameRan == { "frame:skipped", "frame:threw", "frame:rendered" }
InBounds(n) == n.x >= 0 /\ n.x <= canvasWidth /\ n.y >= 0 /\ n.y <= canvasHeight

\* C1: at most one node is being dragged at any time: of all nodes at most one has
\* isDragging = true, and when one has, it is draggedNode and the controller's
\* isDragging is true.
C1_AtMostOneDragged ==
  /\ Cardinality(Dragging) <= 1
  /\ \A i \in Dragging : isDragging /\ draggedNode = i

\* C2: when activate() has run on a MOUNTED or PAUSED component while the document
\* is visible, a frame callback is scheduled.
C2_ActivateSchedulesFrame ==
  (lastEvent \in { "activate", "mounted" } /\ state = "active" /\ ~docHidden /\ ~amDestroyed)
     => AnimationFrames # {}

\* C3: while the document is hidden or the animation is paused, no frame callback
\* of the animation is pending.
C3_NoFramePendingWhenHiddenOrPaused ==
  (docHidden \/ state = "paused" \/ lastEvent = "pause") => AnimationFrames = {}

\* C3 for the lifecycle-managed class alone (holds under Spec)
C3_ManagedClass ==
  (docHidden \/ state # "active") => AnimationFrames = {}

\* C4: once destroy() has returned, no frame callback of the animation is pending
\* (every callback pending at destroy was cancelled) and no frame runs update or
\* render.
C4_NoFrameAfterDestroy ==
  /\ [](amDestroyed => (AnimationFrames = {} /\ activeAnimations = {}))
  /\ [][amDestroyed => lastEvent' \notin FrameRan]_vars

\* C4 happens: destroy() found a pending frame callback and cancelled it
C4_Witness ==
  lastEvent = "destroy:cancelled" /\ amDestroyed /\ state = "destroyed"

\* C5: after destroy() every listener is detached, the ResizeObserver is
\* disconnected, and no handler of the animation runs any more.
C5_DestroyDetachesEverything ==
  amDestroyed =>
    /\ listeners = {} /\ ~observing
    /\ lastEvent \notin (FrameRan \cup { "resize:timer", "resize:window", "resize:observer" })

\* C6: a frame whose update or render throws still has its successor scheduled.
C6_LoopSurvivesThrow ==
  (lastEvent = "frame:threw" /\ state = "active" /\ isVisible) => AnimationFrames # {}

\* C7: after the update step of every completed frame, every node lies within
\* [0, W] x [0, H] of the canvas.
C7_NodesInBoundsAfterFrame ==
  lastEvent = "frame:rendered" => \A i \in DOMAIN nodes : InBounds(nodes[i])

\* C8: after any resize, whatever the new size, every node lies within the new
\* canvas bounds.
C8_NodesInBoundsAfterResize ==
  (lastEvent \in { "resize:window", "resize:timer", "resize:observer" } /\ ~amDestroyed)
     => \A i \in DOMAIN nodes : InBounds(nodes[i])

\* C9: when the pointer is released, no node on which a drag was started is left
\* with velocity (0, 0): its velocity before the drag is restored.  (Every node of
\* the model moves before its first drag, and a restored or re-drawn velocity is
\* never (0, 0).)
C9_VelocityRestoredOnRelease ==
  lastEvent = "release" => \A i \in DOMAIN nodes : nodes[i].vx # 0 \/ nodes[i].vy # 0

\* C10: when the pointer is released, nothing of the drag is left: the controller
\* is idle and no node carries isDragging or a saved velocity.
C10_NoDragStateAfterRelease ==
  lastEvent = "release" =>
    /\ ~isDragging /\ draggedNode = 0
    /\ \A i \in DOMAIN nodes : ~nodes[i].isDragging /\ ~nodes[i].hasOriginal

\* C11: a move event while dragging puts the dragged node at pointer minus the
\* offset recorded at press, clamped per axis into [0, W] x [0, H]; it changes no
\* other node, no velocity and nothing of the drag state.
C11_DragFollowsPointerClamped ==
  [][lastEvent' = "move:drag" =>
       \E p \in MoveTargets :
         LET d  == draggedNode
             tx == p[1] - mouseOffset[1]
             ty == p[2] - mouseOffset[2]
         IN /\ d \in DOMAIN nodes
            /\ nodes'[d].x = (IF tx < 0 THEN 0 ELSE IF tx > canvasWidth THEN canvasWidth ELSE tx)
            /\ nodes'[d].y = (IF ty < 0 THEN 0 ELSE IF ty > canvasHeight THEN canvasHeight ELSE ty)
            /\ InBounds(nodes'[d])
            /\ \A i \in DOMAIN nodes :
                 /\ nodes'[i].vx = nodes[i].vx /\ nodes'[i].vy = nodes[i].vy
                 /\ i # d => nodes'[i] = nodes[i]
            /\ UNCHANGED dragVars]_vars

\* C11 happens: a move took the dragged node beyond the right edge and it was
\* clamped onto the edge
C11_Witness ==
  /\ lastEvent = "move:drag" /\ draggedNode # 0
  /\ nodes[draggedNode].x = canvasWidth

\* C12: the teardown path is idempotent: right after pause() a second pause() has
\* nothing to do (it takes no effect and cancels nothing), and right after
\* destroy() a second destroy() has nothing to do: no cleanup function is left to
\* run again, no frame is tracked, the observer is disconnected.
C12_TeardownIdempotent ==
  /\ lastEvent = "pause" =>
       (~ENABLED Pause /\ state = "paused" /\ activeAnimations = {})
  /\ lastEvent \in { "destroy", "destroy:cancelled" } =>
       (~ENABLED Destroy /\ cleanupFunctions = {} /\ activeAnimations = {} /\ ~observing)

\* C12 happens: pause() and then destroy() have run on a set-up animation
C12_Witness ==
  /\ lastEvent = "destroy" /\ state = "destroyed"
  /\ ~isVisible /\ listeners = {} /\ canvasW > 0

InitFailed == initPending = "fail" \/ state = "error"

\* C13: when getContext('2d') returns no context during onInit, initialization
\* aborts: the component ends in ERROR, no node is created, no listener or
\* observer is registered, no frame is scheduled, and from then on mount() and
\* activate() cannot bring the animation to INITIALIZED, MOUNTED or ACTIVE.
C13_ContextFailureAborts ==
  /\ [](InitFailed =>
          /\ nodes = <<>> /\ listeners = {} /\ ~observing /\ cleanupFunctions = {}
          /\ rafQueue = {} /\ activeAnimations = {})
  /\ [][(initPending = "fail" /\ initPending' = "none") => state' = "error"]_vars
  /\ [][InitFailed => state' \in { "initializing", "error", "destroyed" }]_vars

\* C13 happens: the initialization without a context has settled in ERROR, the
\* created canvas still in the document
C13_Witness ==
  /\ state = "error" /\ lastEvent = "initSettle"
  /\ mountPending = "none" /\ canvasInDom

D2(a, b) == (b.x - a.x) * (b.x - a.x) + (b.y - a.y) * (b.y - a.y)
ConnectionD2(c) == D2(nodes[c.nodeA], nodes[c.nodeB])
Connected(i, j) ==
  \E k \in DOMAIN connections : connections[k].nodeA = i /\ connections[k].nodeB = j
ScenarioNodes ==
  /\ Len(nodes) = 3
  /\ <<nodes[1].x, nodes[1].y>> = <<0, 0>>
  /\ <<nodes[2].x, nodes[2].y>> = <<100 * PX, 0>>
  /\ <<nodes[3].x, nodes[3].y>> = <<400 * PX, 0>>

\* C14: after the connections are computed, nodes A and B are connected iff their
\* distance is below maxConnectionDistance; the strength is 1 - distance /
\* maxConnectionDistance (numerator kept, distance to the unit below), lies in
\* (0, 1] and does not grow with distance; nodes at (0,0), (100,0), (400,0) give
\* exactly the connection (node 1, node 2) with strength 1 - 100/150.
C14_ConnectionsByDistance ==
  lastEvent = "frame:rendered" =>
    /\ \A i \in DOMAIN nodes, j \in DOMAIN nodes :
         i < j => (Connected(i, j) <=>
                     D2(nodes[i], nodes[j]) < maxConnectionDistance * maxConnectionDistance)
    /\ \A k \in DOMAIN connections :
         LET s == connections[k].strength
             d == maxConnectionDistance - s
         IN /\ s > 0 /\ s <= maxConnectionDistance
            /\ d * d <= ConnectionD2(connections[k])
            /\ ConnectionD2(connections[k]) < (d + 1) * (d + 1)
    /\ \A k \in DOMAIN connections, l \in DOMAIN connections :
         ConnectionD2(connections[k]) <= ConnectionD2(connections[l])
           => connections[k].strength >= connections[l].strength
    /\ ScenarioNodes =>
         connections = << [ nodeA |-> 1, nodeB |-> 2,
                            strength |-> (MAX_CONNECTION_DISTANCE - 100) * PX ] >>

\* C14 happens: the connections of the scenario's three nodes have been computed
C14_Witness ==
  lastEvent = "frame:rendered" /\ ScenarioNodes /\ Len(connections) = 1

\* C15: after the connections are computed, the list holds each unordered pair of
\* nodes at most once, no pair of a node with itself, nodeA before nodeB in list
\* order, and only pairs that are within reach now (nothing of the frame before).
C15_ConnectionListWellFormed ==
  lastEvent = "frame:rendered" =>
    /\ \A k \in DOMAIN connections :
         /\ connections[k].nodeA \in DOMAIN nodes /\ connections[k].nodeB \in DOMAIN nodes
         /\ connections[k].nodeA < connections[k].nodeB
         /\ ConnectionD2(connections[k]) < maxConnectionDistance * maxConnectionDistance
    /\ \A k \in DOMAIN connections, l \in DOMAIN connections :
         k # l => { connections[k].nodeA, connections[k].nodeB }
                    # { connections[l].nodeA, connections[l].nodeB }

\* C15 happens: a later frame finds a node moved out of reach of the node at the
\* origin and lists the remaining pairs only
C15_Witness ==
  /\ lastEvent = "frame:rendered" /\ lastUpdateTime > 0 /\ connections # <<>>
  /\ \E i \in DOMAIN nodes, j \in DOMAIN nodes :
       /\ i < j /\ ~Connected(i, j)
       /\ <<nodes[i].x, nodes[i].y>> = <<0, 0>>
       /\ <<nodes[j].x, nodes[j].y>> = <<MAX_CONNECTION_DISTANCE * PX + 10, 0>>

\* C16: in every reachable state (after initialization, bounce, direction
\* perturbation, press and release) every node has |vx| <= maxVelocity and
\* |vy| <= maxVelocity.
C16_VelocityBounded ==
  \A i \in DOMAIN nodes :
    /\ Abs(nodes[i].vx) <= MAX_VELOCITY
    /\ Abs(nodes[i].vy) <= MAX_VELOCITY

\* C16 happens: repeated perturbations have driven a node to the limit on both
\* axes (from -77 the next perturbation goes beyond it and is cut back)
C16_Witness ==
  /\ lastEvent = "frame:rendered"
  /\ \E i \in DOMAIN nodes : nodes[i].vx = -MAX_VELOCITY /\ nodes[i].vy = -MAX_VELOCITY

ScrollSampled == { "scroll:sampled", "scroll:timer" }

\* C17: each scroll sample sets the frame-skip threshold from the measured scroll
\* velocity v = |scrollY - lastScrollY|: 4 when v > 20, 2 when 5 < v <= 20, 1 when
\* v <= 5; the threshold never has another value.
C17_ThresholdStepFunction ==
  /\ [](frameSkipMax \in { 1, 2, 4 })
  /\ [][lastEvent' \in ScrollSampled =>
          LET v == Abs(scrollY' - lastScrollY)
          IN /\ lastScrollY' = scrollY'
             /\ v > 20 => frameSkipMax' = 4
             /\ (v > 5 /\ v <= 20) => frameSkipMax' = 2
             /\ v <= 5 => frameSkipMax' = 1]_vars

\* C17 happens: a sample measured the velocity 20 (from 5 to 25) and set 2
C17_Witness ==
  lastEvent \in ScrollSampled /\ lastScrollY = 25 /\ frameSkipMax = 2

FrameSkipStep ==
  lastEvent' \in { "frame:skipped", "frame:rendered" } =>
    IF frameSkip + 1 >= frameSkipMax
    THEN /\ lastEvent' = "frame:rendered"
         /\ frameSkip' = 0
         /\ lastUpdateTime' = now
    ELSE /\ lastEvent' = "frame:skipped"
         /\ frameSkip' = frameSkip + 1
         /\ UNCHANGED <<nodes, connections, lastUpdateTime>>

\* C18: every frame callback increments the counter (none returns without
\* counting); the callback in which the counter reaches frameSkipMax updates and
\* renders and resets the counter to 0, every other callback only re-schedules; so
\* with the threshold constant at k one of every k consecutive callbacks renders.
C18_FrameSkipPolicy ==
  /\ [](lastEvent # "frame:dropped" /\ frameSkip >= 0 /\ frameSkip < 4)
  /\ [][FrameSkipStep]_vars

\* C18 for the lifecycle-managed class alone (holds under SpecScroll)
C18_ManagedClass ==
  /\ [](lastEvent # "frame:dropped" /\ frameSkip >= 0 /\ frameSkip < 4)
  /\ [][FrameSkipStep]_vars
  /\ [](state \in { "created", "initializing", "initialized", "mounted", "active",
                    "paused", "destroyed", "error" })

\* the pointer of the press that has just happened, from the offset it recorded
PressPointer == <<nodes[draggedNode].x + mouseOffset[1],
                  nodes[draggedNode].y + mouseOffset[2]>>

FurtherTouchEvent ==
  \/ touches >= 1 /\ touches' = touches + 1
  \/ lastEvent' = "release:further"
  \/ lastEvent' = "touchmove:multi"

\* C20: while a drag is in progress, a touch event caused by a further touch point
\* (going down, moving or lifting) is ignored: the drag goes on with the same node
\* and the same offset, and no node's position or velocity changes.
C20_FurtherTouchesIgnored ==
  [][(isDragging /\ draggedNode # 0 /\ FurtherTouchEvent)
       => UNCHANGED <<dragVars, nodes>>]_vars

\* the part of C20 that the handlers do satisfy: a further touch point going down,
\* or a move while several points are down, changes nothing
C20_StartAndMoveIgnored ==
  [][((touches >= 1 /\ touches' = touches + 1) \/ lastEvent' = "touchmove:multi")
       => UNCHANGED <<dragVars, nodes>>]_vars

\* C21: an update leaves the position and the velocity of every node whose
\* isDragging flag is set unchanged, and such a node has velocity (0, 0) in every
\* state: pinned from the press on, whatever frames run.
C21_DraggedNodeNotIntegrated ==
  /\ [](\A i \in DOMAIN nodes : nodes[i].isDragging => nodes[i].vx = 0 /\ nodes[i].vy = 0)
  /\ [][lastEvent' \in FrameRan =>
          \A i \in DOMAIN nodes :
            nodes[i].isDragging =>
              /\ nodes'[i].x = nodes[i].x /\ nodes'[i].y = nodes[i].y
              /\ nodes'[i].vx = nodes[i].vx /\ nodes'[i].vy = nodes[i].vy]_vars

\* C21 happens: a frame has updated and rendered while node 1 was held
C21_Witness ==
  /\ lastEvent = "frame:rendered" /\ isDragging /\ draggedNode = 1
  /\ nodes[1].isDragging /\ nodes[1].hasOriginal /\ nodes[1].originalVx # 0
  /\ lastUpdateTime = now

\* no point at which the pointer can be is within 25px of a node
NoNodeInRange ==
  \A q \in Pointers :
    OnCanvas(q) => \A i \in DOMAIN nodes : PointerD2(nodes[i], q) > (25 * PX) * (25 * PX)

\* C22: an input event that matches no node is a no-op on the simulation.  While
\* the controller is idle, every pointer or touch event other than a press that
\* hits a node (a move, a release, a touchend with no touch left, a press that
\* misses) leaves the nodes and the drag state unchanged; when no node is within
\* the tolerance of the pointer no event at all can start a drag; and a press that
\* misses changes nothing, whether idle or dragging.
C22_UnmatchedInputIsNoOp ==
  /\ [][(inputs' = inputs + 1 /\ ~isDragging /\ lastEvent' # "press:hit")
          => UNCHANGED <<dragVars, nodes>>]_vars
  /\ [][(inputs' = inputs + 1 /\ ~isDragging /\ NoNodeInRange)
          => UNCHANGED <<dragVars, nodes>>]_vars
  /\ [][lastEvent' = "press:miss" => UNCHANGED <<dragVars, nodes>>]_vars

\* C22 happens: a press has missed every node while idle
C22_Witness ==
  /\ lastEvent = "press:miss" /\ ~isDragging /\ draggedNode = 0
  /\ nodes # <<>> /\ NoNodeInRange

CharChanged(i) ==
  \/ nodes'[i].char # nodes[i].char
  \/ nodes'[i].color # nodes[i].color
  \/ nodes'[i].lastCharUpdate # nodes[i].lastCharUpdate

\* C24: character, color and timer of a node change only together and only in an
\* update in which more than 2000 ms have passed since the node's lastCharUpdate,
\* the timer then being set to the current time; an update in which more than
\* 5000 ms have passed always re-rolls; this holds for held nodes as for free ones.
C24_CharacterInterval ==
  [][Len(nodes) = Len(nodes') =>
       \A i \in DOMAIN nodes :
         /\ CharChanged(i) =>
              /\ lastEvent' = "frame:rendered"
              /\ now - nodes[i].lastCharUpdate > 2000
              /\ nodes'[i].lastCharUpdate = now
         /\ (lastEvent' = "frame:rendered" /\ now - nodes[i].lastCharUpdate > 5000)
              => nodes'[i].lastCharUpdate = now]_vars

\* C24 happens: an update has re-rolled the character of a held node
C24_Witness ==
  /\ lastEvent = "frame:rendered" /\ Len(nodes) = 1
  /\ nodes[1].isDragging /\ nodes[1].lastCharUpdate = now /\ now > 2000
  /\ nodes[1].char = "#"

DrawnOps(kind) == { k \in DOMAIN drawn : drawn[k].op = kind }

\* C25: a frame that renders has updated first, computed the connections from the
\* updated positions next and rendered last: what was drawn is the clear, then one
\* connection for exactly each pair of nodes that is within reach at the positions
\* the frame's update produced, then each node once, every connection before every
\* node.
C25_UpdateConnectRender ==
  lastEvent = "frame:rendered" =>
    /\ drawn # <<>> /\ DrawnOps("clearRect") = { 1 }
    /\ \A k \in DrawnOps("connection"), l \in DrawnOps("node") : k < l
    /\ \A i \in DOMAIN nodes, j \in DOMAIN nodes :
         i < j =>
           ((\E k \in DrawnOps("connection") : drawn[k].a = i /\ drawn[k].b = j)
              <=> D2(nodes[i], nodes[j]) < (150 * PX) * (150 * PX))
    /\ Cardinality(DrawnOps("connection")) = Len(connections)
    /\ \A i \in DOMAIN nodes :
         Cardinality({ k \in DrawnOps("node") : drawn[k].a = i }) = 1
    /\ Len(drawn) = 1 + Len(connections) + Len(nodes)

\* C25 happens: a later frame has moved the nodes and drawn connections and nodes
C25_Witness ==
  /\ lastEvent = "frame:rendered" /\ lastUpdateTime > 0
  /\ DrawnOps("connection") # {} /\ DrawnOps("node") # {}
  /\ \E i \in DOMAIN nodes, j \in DOMAIN nodes : i < j /\ ~Connected(i, j)

Initialized == state \in { "initialized", "mounted", "active", "paused" }

\* C26: once initialization has completed the node list holds exactly nodeCount
\* nodes, and no later step (update, resize, pause, activate) changes that number
\* while the animation is not destroyed.
C26_NodeCountFixed ==
  /\ [](Initialized => Len(nodes) = nodeCount)
  /\ [][(Initialized /\ Initialized') => Len(nodes') = Len(nodes)]_vars

\* the part of C26 that holds: the number of nodes never changes after
\* initialization, and an animation constructed with autoInit: false has nodeCount
\* nodes
C26_CountStable ==
  /\ [][(Initialized /\ Initialized') => Len(nodes') = Len(nodes)]_vars
  /\ [](Initialized => Len(nodes) \in { 0, nodeCount })

\* C27: while enableAnimations is false no frame callback updates or renders.
C27_DisabledAnimationDoesNotRun ==
  [][~enableAnimations => lastEvent' \notin { "frame:rendered", "frame:threw" }]_vars

Resized == lastEvent \in { "resize:window", "resize:timer", "resize:observer" }

\* C28: right after a resize has been handled the backing store of the canvas is
\* the CSS size times the device pixel ratio and the scale of the drawing context
\* is the device pixel ratio itself, however many resizes came before.
C28_CanvasMatchesLayout ==
  Resized =>
    /\ canvasW = RectW * dpr /\ canvasH = RectH * dpr
    /\ ctxScale = dpr

\* C28 happens: a deferred resize, hence not the first one, was handled at DPR 2
C28_Witness ==
  /\ lastEvent = "resize:timer" /\ dpr = 2 /\ ctxScale = 2
  /\ canvasW = 2 * rectW /\ canvasW > 0

\* C29: at any time at most one frame callback of the animation is pending, and
\* the manager's count of active scheduled callbacks is 0 or 1.
C29_SingleFrameLoop ==
  /\ Cardinality(AnimationFrames) <= 1
  /\ Cardinality(activeAnimations) <= 1

\* C29 for the lifecycle-managed class alone (holds under Spec): one callback at
\* most, and the manager's set is exactly the pending callbacks
C29_ManagedClass ==
  /\ Cardinality(AnimationFrames) <= 1
  /\ activeAnimations = { e.id : e \in AnimationFrames }

\* C30: the controller and the node flags agree: isDragging holds iff draggedNode
\* is a node; then that node is the one and only node whose isDragging flag is
\* set; and while the controller is idle no node has the flag set.
C30_ControllerAndFlagsAgree ==
  /\ isDragging <=> draggedNode # 0
  /\ isDragging => Dragging = { draggedNode }
  /\ ~isDragging => Dragging = {}

\* the part of C30 that holds: isDragging iff draggedNode is a node, and the
\* dragged node carries the flag
C30_ControllerConsistent ==
  /\ isDragging <=> draggedNode # 0
  /\ isDragging => draggedNode \in Dragging

\* C31: while appState.animationsEnabled is false the animation is never ACTIVE
\* and holds no frame request, whatever visibilitychange events arrive
C31_DisabledStaysPaused ==
  ~animationsEnabled => state # "active" /\ activeAnimations = {}

\* toggleAnimations(false) itself leaves the animation out of ACTIVE with no frame
C31_ToggleOffPauses ==
  lastEvent = "toggle:off" => ~animationsEnabled /\ state # "active" /\ activeAnimations = {}

\* an animate request of the standalone class is pending
sLoopPending == \E e \in rafQueue : e.kind = "sanimate"

\* C32: in the standalone animation, between pause() and resume() no frame
\* callback is scheduled and no update runs, whatever visibilitychange events occur
C32_PauseHoldsUntilResume ==
  explicitPause =>
    /\ ~sLoopPending /\ animationId = 0
    /\ lastEvent \notin { "frame:rendered", "frame:skipped" }

\* pause() itself clears the visibility flag and the handle of the loop
C32_PauseStops ==
  lastEvent = "pause" => explicitPause /\ ~isVisible /\ animationId = 0

\* The transitions of ComponentState a step may take.  UNMOUNTING and MOUNTED are
\* passed within one synchronous call (destroy(), the end of mount()), so a step
\* shows any -> DESTROYED and INITIALIZED -> ACTIVE.
LifecycleSteps ==
  { <<"created", "initializing">>, <<"initializing", "initialized">>,
    <<"initializing", "error">>, <<"initialized", "mounted">>,
    <<"initialized", "active">>, <<"initialized", "error">>,
    <<"mounted", "active">>, <<"active", "paused">>, <<"paused", "active">> }
  \cup { <<s, "destroyed">> : s \in { "created", "initializing", "initialized", "mounted",
                                      "active", "paused", "error" } }

\* C33: the component state moves only along the lifecycle's transitions, and
\* DESTROYED is absorbing: afterwards the state never changes and no frame is
\* requested
C33_LifecycleOrder ==
  [][ /\ state' # state => <<state, state'>> \in LifecycleSteps
      /\ state = "destroyed" => state' = "destroyed" /\ rafQueue' \subseteq rafQueue ]_vars

\* a call made on a component that is DESTROYED and has no continuation pending
\* changes nothing of the component
C33_DestroyedAndSettled ==
  [][ state = "destroyed" /\ NoMicrotask =>
        UNCHANGED <<compVars, frameVars, domVars, isVisible>> ]_vars

\* C34: an initialize() or mount() issued while the initialization that autoInit
\* started is in flight joins it: the call is not rejected
C34_CallsJoinPendingInit ==
  initPending # "none" => lastEvent \notin { "initialize:rejected", "mount:rejected" }

\* onInit() runs once: INITIALIZING is entered from CREATED only
C34_OnInitOnce ==
  [][state' = "initializing" /\ state # "initializing" => state = "created"]_vars

\* C35: a listener registered with once() is called for at most one emit per
\* registration, re-entrant emits and registrations during an emit included, and
\* after an emit no once-listener is registered
C35_OnceListenerCalledOnce ==
  /\ \A l \in ListenerIds : bus.onceCalls[l] <= bus.onceAdded[l]
  /\ lastEvent = "bus:emit" => bus.onceListeners = <<>>

\* after an emit returns, the set of once-listeners is empty
C35_OnceSetClearedByEmit ==
  lastEvent = "bus:emit" => bus.onceListeners = <<>>

\* the value breaks the validation rule of its key: a number outside [min, max]
\* or a string outside the allowed values
ViolatesRule(key, value) ==
  \E r \in VALIDATION_RULES :
    /\ r.key = key
    /\ \/ r.type = "number" /\ value.t = "number" /\ (value.n < r.min \/ value.n > r.max)
       \/ r.type = "string" /\ value.t = "string" /\ value.s \notin r.allowedValues

\* C36: setSetting with a value that breaks its key's rule is rejected and leaves
\* the settings in memory, the stored copy and the UI as they were, with no
\* change event
C36_InvalidSettingRejected ==
  [][ (lastEvent' = "setSetting" /\ ViolatesRule(sm'.call[1], sm'.call[2])) =>
        /\ sm'.outcome = "rejected" /\ ~sm'.emitted
        /\ sm'.settings = sm.settings /\ sm'.stored = sm.stored /\ sm'.ui = sm.ui ]_vars

C36_Witness ==
  /\ lastEvent = "setSetting" /\ sm.outcome = "rejected"
  /\ sm.call = <<"masterVolume", num(101)>>
  /\ sm.settings.masterVolume = num(100)
  /\ sm.settings.graphicsQuality = str("ultra")

\* the throttled scroll handler ran its function in this step
ThrottledRun == lastEvent' \in { "scroll:sampled", "scroll:timer" }

\* C37: the function wrapped by throttle(func, delay) runs at most once in any
\* window of length delay: two runs are at least delay apart, timers that fire
\* late included
C37_ThrottleSpacing ==
  [][ThrottledRun => (Epoch + now') - scrollThrottle.last >= SCROLL_DELAY]_vars

\* a run on the immediate path is more than delay after the run before it
C37_ImmediateRunSpaced ==
  [][lastEvent' = "scroll:sampled" =>
       (Epoch + now') - scrollThrottle.last > SCROLL_DELAY]_vars

====
